---------------------------- MODULE Spec2Model ----------------------------
(***************************************************************************)
(* Transaction payload variants, their JSON exchange codec                 *)
(* (core/types/transaction_marshalling.go), the Mantle deposit payload     *)
(* (core/types/tx_deposit_mantle.go), the Zeta payload                     *)
(* (core/types/tx_zeta.go), the effective-nonce wrappers, the stateful     *)
(* precompiled contracts and the simulated call (core/vm/simulate.go).     *)
(*                                                                         *)
(* Conventions.  A Go pointer field is an option: Nil (the nil pointer) or *)
(* Some(v).  A byte string is a sequence of naturals; addresses and hashes *)
(* are naturals.  A JSON text is either malformed or an object, a function *)
(* from the keys of txJSON to JAbsent (key not in the text), JNull (key    *)
(* with the JSON null) or JVal(v).                                         *)
(***************************************************************************)
EXTENDS Integers, Sequences, FiniteSets, TLC

VARIABLES
    inner,       \* Transaction.inner of the receiver tx ([kind |-> "nil"] before any payload is set)
    input,       \* the JSON text handed to UnmarshalJSON / produced by MarshalJSON
    err,         \* the error returned by the last operation
    op,          \* the last operation executed
    source,      \* the payload the text in `input` or `wire` was encoded from, if any
    wire,        \* the RLP item list produced by the last binary encode
    ret,         \* the value returned by the last accessor call
    heap,        \* the storage behind pointer and slice fields: a sequence of cells
    cpy,         \* the payload returned by copy(), its pointer fields as heap addresses
    writes,      \* the number of writes made through pointer fields so far
    resp,        \* evm.SimulateResp
    balances,    \* the native balance of each account in evm.StateDB
    call         \* the call made on the EVM: its arguments and what it returned

vars ==
    <<inner, input, err, op, source, wire, ret, heap, cpy, writes,
      resp, balances, call>>

\* The variables of the codec and those of the storage behind payloads.
codecVars == <<input, err, source, wire, ret>>
copyVars == <<heap, cpy, writes>>
\* The variables of the transaction, and those of the EVM.
txVars == <<inner, input, err, source, wire, ret, heap, cpy, writes>>
vmVars == <<resp, balances, call>>

-----------------------------------------------------------------------------
(* Bounds of the model.                                                    *)

\* Largest number used for a numeric field of a generated input.
MaxVal == 1
\* Largest number of keys removed from a well-formed JSON object.
MaxRemoved == 1
\* Largest effective nonce given to a wrapper.
MaxNonce == 2
\* Largest number of writes made through the pointer fields of a payload and its copy.
MaxWrites == 2
\* Largest gas supplied to a call and largest gas a precompiled contract requires.
MaxGas == 3
\* Largest value transferred by a call and largest balance an account starts with.
MaxValue == 2
\* Width in bits of the unsigned integers holding gas (uint64 in the code).
UintBits == 3

-----------------------------------------------------------------------------
(* Type discriminants.                                                     *)

LegacyTxType == 0
AccessListTxType == 1
DynamicFeeTxType == 2
BlobTxType == 3
DepositTxType == 126
ZetaCosmosEVMTxType == 88
ArbitrumDepositTxType == 100
ArbitrumUnsignedTxType == 101
ArbitrumContractTxType == 102
ArbitrumRetryTxType == 104
ArbitrumSubmitRetryableTxType == 105
ArbitrumInternalTxType == 106
ArbitrumLegacyTxType == 120
\* Type tags no case of UnmarshalJSON handles: 0xFF and 0x7F.
UnknownTxTypes == {255, 127}

-----------------------------------------------------------------------------
(* Options and JSON values.                                                *)

Nil == <<>>
Some(v) == <<v>>
IsNil(p) == p = <<>>
Deref(p) == p[1]

JAbsent == <<>>
JNull == <<0, 0>>
JVal(v) == <<v>>
IsJVal(j) == Len(j) = 1

\* The keys of txJSON, by their JSON names.
Keys ==
    {"type", "chainId", "nonce", "to", "gas", "gasPrice", "maxPriorityFeePerGas",
     "maxFeePerGas", "maxFeePerDataGas", "maxFeePerBlobGas", "value", "input",
     "accessList", "blobVersionedHashes", "v", "r", "s",
     "sourceHash", "from", "mint", "ethValue", "ethTxValue", "isSystemTx",
     "requestId", "ticketId", "maxRefund", "submissionFeeRefund", "refundTo",
     "l1BaseFee", "depositValue", "retryTo", "retryValue", "retryData",
     "beneficiary", "maxSubmissionFee", "effectiveGasPrice", "l1BlockNumber",
     "hash", "blockHash", "sender", "queueIndex"}

\* Fields of txJSON that are values, not pointers: a missing key leaves the zero value.
ValueKeys == {"type", "hash", "blockHash"}

\* Fields of txJSON tagged omitempty.
OmitEmptyKeys ==
    {"chainId", "maxFeePerDataGas", "maxFeePerBlobGas", "accessList",
     "blobVersionedHashes", "sourceHash", "from", "mint", "ethValue", "ethTxValue",
     "isSystemTx", "requestId", "ticketId", "maxRefund", "submissionFeeRefund",
     "refundTo", "l1BaseFee", "depositValue", "retryTo", "retryValue", "retryData",
     "beneficiary", "maxSubmissionFee", "effectiveGasPrice", "l1BlockNumber",
     "sender", "queueIndex"}

\* The txJSON struct with every pointer nil and every value zero.
txJSON == [k \in Keys |-> IF k \in ValueKeys THEN Some(0) ELSE Nil]

\* json.Unmarshal(input, &dec): a key that is absent or null leaves the field as it
\* was in the zero struct, a key with a value sets it.
jsonUnmarshal(obj) ==
    [k \in Keys |-> IF IsJVal(obj[k]) THEN Some(obj[k][1]) ELSE txJSON[k]]

\* json.Marshal(&enc): a nil pointer is dropped under omitempty and written as null
\* otherwise; an empty blobVersionedHashes slice is dropped under omitempty.
jsonMarshal(enc) ==
    [k \in Keys |->
        IF IsNil(enc[k])
        THEN (IF k \in OmitEmptyKeys THEN JAbsent ELSE JNull)
        ELSE IF k = "blobVersionedHashes" /\ Deref(enc[k]) = <<>>
             THEN JAbsent
             ELSE JVal(Deref(enc[k]))]

-----------------------------------------------------------------------------
(* Errors.                                                                 *)

NoErr == [kind |-> "nil", field |-> ""]
ErrMissing(f) == [kind |-> "missing required field", field |-> f]
ErrUnexpectedFields == [kind |-> "unexpected field(s) in deposit transaction", field |-> ""]
ErrGasPriceNotZero == [kind |-> "deposit transaction GasPrice must be 0", field |-> "gasPrice"]
ErrSignatureNotZero == [kind |-> "deposit transaction signature must be 0 or unset", field |-> ""]
ErrTxTypeNotSupported == [kind |-> "transaction type not supported", field |-> ""]
ErrInvalidSig == [kind |-> "invalid transaction v, r, s values", field |-> ""]
ErrSyntax == [kind |-> "json syntax error", field |-> ""]

\* The result of a decode: an error, or a payload.
Fail(e) == [err |-> e, inner |-> [kind |-> "nil"]]
Ok(p) == [err |-> NoErr, inner |-> p]

\* The first key of the sequence `req` that `dec` lacks, as a sequence of at most one key.
RECURSIVE FirstMissing(_, _)
FirstMissing(dec, req) ==
    IF req = <<>> THEN <<>>
    ELSE IF IsNil(dec[Head(req)]) THEN <<Head(req)>>
    ELSE FirstMissing(dec, Tail(req))

-----------------------------------------------------------------------------
(* The EVM at rest.                                                        *)

\* The accounts of the state: a caller and a callee.
Addresses == {1, 2}
\* The zero SimulateResponse.
ZeroResp ==
    [AssetChanges |-> <<>>, GasCost |-> 0, SuccessWithPrePay |-> FALSE,
     SuccessWithoutPrePay |-> FALSE]
NoCall == [fn |-> "none"]
\* No call has been made on the EVM.
VMIdle ==
    /\ resp = ZeroResp
    /\ balances = [a \in Addresses |-> 0]
    /\ call = NoCall

-----------------------------------------------------------------------------
(* Signature sanity check: sanityCheckSignature of core/types, described   *)
(* by the legal ranges of v for each signing scheme.                       *)

\* v is legal for a signing scheme: 27/28 or an EIP-155 chain-derived value for
\* the legacy-style scheme, the bare recovery id 0/1 otherwise.
LegalV(v, maybeProtected) ==
    IF maybeProtected THEN v \in {27, 28} \/ v >= 35 ELSE v \in {0, 1}

sanityCheckSignature(v, r, s, maybeProtected) ==
    IF LegalV(v, maybeProtected) /\ r # 0 /\ s # 0 THEN NoErr ELSE ErrInvalidSig

\* A check that would be made only when v is set.
CheckSignatureWhenVSet(v, r, s, maybeProtected) ==
    IF v # 0 THEN sanityCheckSignature(v, r, s, maybeProtected) ELSE NoErr

\* withSignature := V.Sign() != 0 || R.Sign() != 0 || S.Sign() != 0, and the
\* check made only then.
CheckSignature(v, r, s, maybeProtected) ==
    IF v # 0 \/ r # 0 \/ s # 0
    THEN sanityCheckSignature(v, r, s, maybeProtected)
    ELSE NoErr

-----------------------------------------------------------------------------
(* UnmarshalJSON, one operator per case of the switch on dec.Type.  Each   *)
(* takes the decoded txJSON and returns Fail(error) or Ok(payload).        *)

\* The required keys of each case, in the order the code examines them.
LegacyRequired == <<"nonce", "gas", "gasPrice", "value", "input", "v", "r", "s">>
ZetaRequired == <<"nonce", "gas", "gasPrice", "value", "input">>
\* The keys of the access-list case with the recipient made mandatory.
AccessListRequiredWithTo ==
    <<"chainId", "nonce", "to", "gas", "gasPrice", "value", "input", "v", "r", "s">>
AccessListRequired ==
    <<"chainId", "nonce", "gas", "gasPrice", "value", "input", "v", "r", "s">>
DynamicFeeRequired ==
    <<"chainId", "nonce", "gas", "maxPriorityFeePerGas", "maxFeePerGas", "value",
      "input", "v", "r", "s">>
BlobRequired ==
    <<"chainId", "nonce", "gas", "maxPriorityFeePerGas", "maxFeePerGas",
      "maxFeePerBlobGas", "value", "input", "v", "blobVersionedHashes", "r", "s">>
DepositMantleRequired == <<"gas", "value", "input", "from">>
L1MessageRequired == <<"queueIndex", "gas", "value", "input">>
DepositRequired == <<"gas", "value", "input", "from", "sourceHash">>

\* AccessList of a payload: the decoded list, or the nil list when the key is absent.
ListOrNil(p) == IF IsNil(p) THEN <<>> ELSE Deref(p)

\* A legacy case that would build the payload without looking at the signature.
DecodeLegacyUnchecked(dec) ==
    LET m == FirstMissing(dec, LegacyRequired)
    IN  IF m # <<>> THEN Fail(ErrMissing(m[1]))
        ELSE Ok([kind |-> "LegacyTx",
                 Nonce |-> Deref(dec["nonce"]), To |-> dec["to"],
                 Gas |-> Deref(dec["gas"]), GasPrice |-> Deref(dec["gasPrice"]),
                 Value |-> Deref(dec["value"]), Data |-> Deref(dec["input"]),
                 V |-> Deref(dec["v"]), R |-> Deref(dec["r"]), S |-> Deref(dec["s"])])

DecodeLegacy(dec) ==
    LET m == FirstMissing(dec, LegacyRequired)
        e == CheckSignature(Deref(dec["v"]), Deref(dec["r"]), Deref(dec["s"]), TRUE)
    IN  IF m # <<>> THEN Fail(ErrMissing(m[1]))
        ELSE IF e # NoErr THEN Fail(e)
        ELSE Ok([kind |-> "LegacyTx",
                 Nonce |-> Deref(dec["nonce"]), To |-> dec["to"],
                 Gas |-> Deref(dec["gas"]), GasPrice |-> Deref(dec["gasPrice"]),
                 Value |-> Deref(dec["value"]), Data |-> Deref(dec["input"]),
                 V |-> Deref(dec["v"]), R |-> Deref(dec["r"]), S |-> Deref(dec["s"])])

\* A Zeta case that would keep the signature the object carries.
DecodeZetaKeepingSignature(dec) ==
    LET m == FirstMissing(dec, ZetaRequired)
        sig(k) == IF IsNil(dec[k]) THEN 0 ELSE Deref(dec[k])
    IN  IF m # <<>> THEN Fail(ErrMissing(m[1]))
        ELSE Ok([kind |-> "ZetaCosmosEVMTx",
                 TxHash |-> Deref(dec["hash"]), BlockHash |-> Deref(dec["blockHash"]),
                 Nonce |-> Deref(dec["nonce"]), To |-> dec["to"],
                 Gas |-> Deref(dec["gas"]), GasPrice |-> Deref(dec["gasPrice"]),
                 Value |-> Deref(dec["value"]), Data |-> Deref(dec["input"]),
                 V |-> sig("v"), R |-> sig("r"), S |-> sig("s")])

DecodeZeta(dec) ==
    LET m == FirstMissing(dec, ZetaRequired)
    IN  IF m # <<>> THEN Fail(ErrMissing(m[1]))
        ELSE Ok([kind |-> "ZetaCosmosEVMTx",
                 TxHash |-> Deref(dec["hash"]), BlockHash |-> Deref(dec["blockHash"]),
                 Nonce |-> Deref(dec["nonce"]), To |-> dec["to"],
                 Gas |-> Deref(dec["gas"]), GasPrice |-> Deref(dec["gasPrice"]),
                 Value |-> Deref(dec["value"]), Data |-> Deref(dec["input"]),
                 V |-> 0, R |-> 0, S |-> 0])

DecodeAccessList(dec) ==
    LET m == FirstMissing(dec, AccessListRequired)
        e == CheckSignature(Deref(dec["v"]), Deref(dec["r"]), Deref(dec["s"]), FALSE)
    IN  IF m # <<>> THEN Fail(ErrMissing(m[1]))
        ELSE IF e # NoErr THEN Fail(e)
        ELSE Ok([kind |-> "AccessListTx",
                 ChainID |-> Deref(dec["chainId"]),
                 Nonce |-> Deref(dec["nonce"]), To |-> dec["to"],
                 Gas |-> Deref(dec["gas"]), GasPrice |-> Deref(dec["gasPrice"]),
                 Value |-> Deref(dec["value"]), Data |-> Deref(dec["input"]),
                 AccessList |-> ListOrNil(dec["accessList"]),
                 V |-> Deref(dec["v"]), R |-> Deref(dec["r"]), S |-> Deref(dec["s"])])

\* A dynamic-fee case that would read the nonce from "gas" and the gas limit from
\* "nonce".
DecodeDynamicFeeSwapped(dec) ==
    LET m == FirstMissing(dec, DynamicFeeRequired)
        e == CheckSignature(Deref(dec["v"]), Deref(dec["r"]), Deref(dec["s"]), FALSE)
    IN  IF m # <<>> THEN Fail(ErrMissing(m[1]))
        ELSE IF e # NoErr THEN Fail(e)
        ELSE Ok([kind |-> "DynamicFeeTx",
                 ChainID |-> Deref(dec["chainId"]),
                 Nonce |-> Deref(dec["gas"]), To |-> dec["to"],
                 Gas |-> Deref(dec["nonce"]),
                 GasTipCap |-> Deref(dec["maxPriorityFeePerGas"]),
                 GasFeeCap |-> Deref(dec["maxFeePerGas"]),
                 Value |-> Deref(dec["value"]), Data |-> Deref(dec["input"]),
                 AccessList |-> ListOrNil(dec["accessList"]),
                 V |-> Deref(dec["v"]), R |-> Deref(dec["r"]), S |-> Deref(dec["s"])])

DecodeDynamicFee(dec) ==
    LET m == FirstMissing(dec, DynamicFeeRequired)
        e == CheckSignature(Deref(dec["v"]), Deref(dec["r"]), Deref(dec["s"]), FALSE)
    IN  IF m # <<>> THEN Fail(ErrMissing(m[1]))
        ELSE IF e # NoErr THEN Fail(e)
        ELSE Ok([kind |-> "DynamicFeeTx",
                 ChainID |-> Deref(dec["chainId"]),
                 Nonce |-> Deref(dec["nonce"]), To |-> dec["to"],
                 Gas |-> Deref(dec["gas"]),
                 GasTipCap |-> Deref(dec["maxPriorityFeePerGas"]),
                 GasFeeCap |-> Deref(dec["maxFeePerGas"]),
                 Value |-> Deref(dec["value"]), Data |-> Deref(dec["input"]),
                 AccessList |-> ListOrNil(dec["accessList"]),
                 V |-> Deref(dec["v"]), R |-> Deref(dec["r"]), S |-> Deref(dec["s"])])

DecodeBlob(dec) ==
    LET m == FirstMissing(dec, BlobRequired)
        e == CheckSignature(Deref(dec["v"]), Deref(dec["r"]), Deref(dec["s"]), FALSE)
    IN  IF m # <<>> THEN Fail(ErrMissing(m[1]))
        ELSE IF e # NoErr THEN Fail(e)
        ELSE Ok([kind |-> "BlobTx",
                 ChainID |-> Deref(dec["chainId"]),
                 Nonce |-> Deref(dec["nonce"]), To |-> dec["to"],
                 Gas |-> Deref(dec["gas"]),
                 GasTipCap |-> Deref(dec["maxPriorityFeePerGas"]),
                 GasFeeCap |-> Deref(dec["maxFeePerGas"]),
                 BlobFeeCap |-> Deref(dec["maxFeePerBlobGas"]),
                 Value |-> Deref(dec["value"]), Data |-> Deref(dec["input"]),
                 AccessList |-> ListOrNil(dec["accessList"]),
                 BlobHashes |-> Deref(dec["blobVersionedHashes"]),
                 V |-> Deref(dec["v"]), R |-> Deref(dec["r"]), S |-> Deref(dec["s"])])

\* IsSystemTx may be omitted and defaults to false.
BoolOrFalse(p) == IF IsNil(p) THEN FALSE ELSE Deref(p)
\* SourceHash of the Mantle branch: set only when the key is present.
HashOrZero(p) == IF IsNil(p) THEN 0 ELSE Deref(p)

\* Checks that would reject gasPrice, v, r and s on their presence alone.
DepositForbiddenOnPresence(dec) ==
    IF ~IsNil(dec["accessList"]) \/ ~IsNil(dec["maxFeePerGas"])
          \/ ~IsNil(dec["maxPriorityFeePerGas"])
    THEN ErrUnexpectedFields
    ELSE IF ~IsNil(dec["gasPrice"])
    THEN ErrGasPriceNotZero
    ELSE IF ~IsNil(dec["v"]) \/ ~IsNil(dec["r"]) \/ ~IsNil(dec["s"])
    THEN ErrSignatureNotZero
    ELSE NoErr

\* The checks made on every deposit-type object before a sub-variant is selected.
DepositForbidden(dec) ==
    IF ~IsNil(dec["accessList"]) \/ ~IsNil(dec["maxFeePerGas"])
          \/ ~IsNil(dec["maxPriorityFeePerGas"])
    THEN ErrUnexpectedFields
    ELSE IF ~IsNil(dec["gasPrice"]) /\ Deref(dec["gasPrice"]) # 0
    THEN ErrGasPriceNotZero
    ELSE IF (~IsNil(dec["v"]) /\ Deref(dec["v"]) # 0)
             \/ (~IsNil(dec["r"]) /\ Deref(dec["r"]) # 0)
             \/ (~IsNil(dec["s"]) /\ Deref(dec["s"]) # 0)
    THEN ErrSignatureNotZero
    ELSE NoErr

DecodeDepositMantle(dec) ==
    LET m == FirstMissing(dec, DepositMantleRequired)
        itx == [kind |-> "DepositTxMantle",
                SourceHash |-> HashOrZero(dec["sourceHash"]),
                From |-> Deref(dec["from"]), To |-> dec["to"],
                Mint |-> dec["mint"], Value |-> Deref(dec["value"]),
                Gas |-> Deref(dec["gas"]),
                IsSystemTransaction |-> BoolOrFalse(dec["isSystemTx"]),
                EthValue |-> dec["ethValue"], Data |-> Deref(dec["input"]),
                EthTxValue |-> dec["ethTxValue"]]
    IN  IF m # <<>> THEN Fail(ErrMissing(m[1]))
        ELSE IF ~IsNil(dec["nonce"])
        THEN Ok([kind |-> "depositMantleTxWithNonce", DepositTxMantle |-> itx,
                 EffectiveNonce |-> Deref(dec["nonce"])])
        ELSE Ok(itx)

DecodeL1Message(dec) ==
    LET m == FirstMissing(dec, L1MessageRequired)
    IN  IF m # <<>> THEN Fail(ErrMissing(m[1]))
        ELSE Ok([kind |-> "L1MessageTx",
                 QueueIndex |-> Deref(dec["queueIndex"]), Gas |-> Deref(dec["gas"]),
                 To |-> dec["to"], Value |-> Deref(dec["value"]),
                 Data |-> Deref(dec["input"]), Sender |-> Deref(dec["sender"])])

\* A base-deposit branch that would never wrap the payload.
DecodeDepositBaseUnwrapped(dec) ==
    LET m == FirstMissing(dec, DepositRequired)
    IN  IF m # <<>> THEN Fail(ErrMissing(m[1]))
        ELSE Ok([kind |-> "DepositTx",
                 SourceHash |-> Deref(dec["sourceHash"]),
                 From |-> Deref(dec["from"]), To |-> dec["to"],
                 Mint |-> dec["mint"], Value |-> Deref(dec["value"]),
                 Gas |-> Deref(dec["gas"]),
                 IsSystemTransaction |-> BoolOrFalse(dec["isSystemTx"]),
                 Data |-> Deref(dec["input"])])

DecodeDepositBase(dec) ==
    LET m == FirstMissing(dec, DepositRequired)
        itx == [kind |-> "DepositTx",
                SourceHash |-> Deref(dec["sourceHash"]),
                From |-> Deref(dec["from"]), To |-> dec["to"],
                Mint |-> dec["mint"], Value |-> Deref(dec["value"]),
                Gas |-> Deref(dec["gas"]),
                IsSystemTransaction |-> BoolOrFalse(dec["isSystemTx"]),
                Data |-> Deref(dec["input"])]
    IN  IF m # <<>> THEN Fail(ErrMissing(m[1]))
        ELSE IF ~IsNil(dec["nonce"])
        THEN Ok([kind |-> "depositTxWithNonce", DepositTx |-> itx,
                 EffectiveNonce |-> Deref(dec["nonce"])])
        ELSE Ok(itx)

\* A selection that would look at "sender" before "ethValue".
DepositVariantSenderFirst(dec) ==
    IF ~IsNil(dec["sender"]) THEN "L1MessageTx"
    ELSE IF ~IsNil(dec["ethValue"]) THEN "DepositTxMantle"
    ELSE "DepositTx"

\* The sub-variant a deposit-type object selects.
DepositVariant(dec) ==
    IF ~IsNil(dec["ethValue"]) THEN "DepositTxMantle"
    ELSE IF ~IsNil(dec["sender"]) THEN "L1MessageTx"
    ELSE "DepositTx"

\* A deposit case that would select and decode the sub-variant first and look at the
\* forbidden keys afterwards.
DecodeDepositSelectFirst(dec) ==
    LET e == DepositForbidden(dec)
        variant == DepositVariant(dec)
        res == IF variant = "DepositTxMantle" THEN DecodeDepositMantle(dec)
               ELSE IF variant = "L1MessageTx" THEN DecodeL1Message(dec)
               ELSE DecodeDepositBase(dec)
    IN  IF res.err # NoErr THEN res
        ELSE IF e # NoErr THEN Fail(e)
        ELSE res

DecodeDeposit(dec) ==
    LET e == DepositForbidden(dec)
        variant == DepositVariant(dec)
    IN  IF e # NoErr THEN Fail(e)
        ELSE IF variant = "DepositTxMantle" THEN DecodeDepositMantle(dec)
        ELSE IF variant = "L1MessageTx" THEN DecodeL1Message(dec)
        ELSE DecodeDepositBase(dec)

-----------------------------------------------------------------------------
(* The Arbitrum cases.                                                     *)

ArbLegacyRequired == <<"nonce", "gasPrice", "gas", "value", "input", "v", "r", "s">>
ArbInternalRequired == <<"chainId", "input">>
ArbDepositRequired == <<"chainId", "requestId", "to", "from", "value">>
ArbUnsignedRequired ==
    <<"chainId", "from", "nonce", "maxFeePerGas", "gas", "value", "input">>
ArbContractRequired ==
    <<"chainId", "requestId", "from", "maxFeePerGas", "gas", "value", "input">>
\* Required keys of a retry case that would also require "to".
ArbRetryRequiredWithTo ==
    <<"chainId", "nonce", "from", "maxFeePerGas", "gas", "to", "value", "input",
      "ticketId", "refundTo", "maxRefund", "submissionFeeRefund">>
ArbRetryRequired ==
    <<"chainId", "nonce", "from", "maxFeePerGas", "gas", "value", "input",
      "ticketId", "refundTo", "maxRefund", "submissionFeeRefund">>
ArbSubmitRetryableRequired ==
    <<"chainId", "requestId", "from", "l1BaseFee", "depositValue", "maxFeePerGas",
      "gas", "beneficiary", "maxSubmissionFee", "refundTo", "retryValue", "retryData">>

\* An Arbitrum-legacy case that would check the signature as that of a typed
\* transaction.
DecodeArbitrumLegacyTypedSignature(dec) ==
    LET m == FirstMissing(dec, ArbLegacyRequired)
        e == CheckSignature(Deref(dec["v"]), Deref(dec["r"]), Deref(dec["s"]), FALSE)
        itx == [kind |-> "LegacyTx",
                Nonce |-> Deref(dec["nonce"]), To |-> dec["to"],
                Gas |-> Deref(dec["gas"]), GasPrice |-> Deref(dec["gasPrice"]),
                Value |-> Deref(dec["value"]), Data |-> Deref(dec["input"]),
                V |-> Deref(dec["v"]), R |-> Deref(dec["r"]), S |-> Deref(dec["s"])]
    IN  IF m # <<>> THEN Fail(ErrMissing(m[1]))
        ELSE IF e # NoErr THEN Fail(e)
        ELSE IF IsNil(dec["effectiveGasPrice"]) THEN Fail(ErrMissing("EffectiveGasPrice"))
        ELSE IF IsNil(dec["l1BlockNumber"]) THEN Fail(ErrMissing("L1BlockNumber"))
        ELSE Ok([kind |-> "ArbitrumLegacyTxData", LegacyTx |-> itx,
                 HashOverride |-> Deref(dec["hash"]),
                 EffectiveGasPrice |-> Deref(dec["effectiveGasPrice"]),
                 L1BlockNumber |-> Deref(dec["l1BlockNumber"]),
                 Sender |-> dec["from"]])

DecodeArbitrumLegacy(dec) ==
    LET m == FirstMissing(dec, ArbLegacyRequired)
        e == CheckSignature(Deref(dec["v"]), Deref(dec["r"]), Deref(dec["s"]), TRUE)
        itx == [kind |-> "LegacyTx",
                Nonce |-> Deref(dec["nonce"]), To |-> dec["to"],
                Gas |-> Deref(dec["gas"]), GasPrice |-> Deref(dec["gasPrice"]),
                Value |-> Deref(dec["value"]), Data |-> Deref(dec["input"]),
                V |-> Deref(dec["v"]), R |-> Deref(dec["r"]), S |-> Deref(dec["s"])]
    IN  IF m # <<>> THEN Fail(ErrMissing(m[1]))
        ELSE IF e # NoErr THEN Fail(e)
        ELSE IF IsNil(dec["effectiveGasPrice"]) THEN Fail(ErrMissing("EffectiveGasPrice"))
        ELSE IF IsNil(dec["l1BlockNumber"]) THEN Fail(ErrMissing("L1BlockNumber"))
        ELSE Ok([kind |-> "ArbitrumLegacyTxData", LegacyTx |-> itx,
                 HashOverride |-> Deref(dec["hash"]),
                 EffectiveGasPrice |-> Deref(dec["effectiveGasPrice"]),
                 L1BlockNumber |-> Deref(dec["l1BlockNumber"]),
                 Sender |-> dec["from"]])

DecodeArbitrumInternal(dec) ==
    LET m == FirstMissing(dec, ArbInternalRequired)
    IN  IF m # <<>> THEN Fail(ErrMissing(m[1]))
        ELSE Ok([kind |-> "ArbitrumInternalTx",
                 ChainId |-> Deref(dec["chainId"]), Data |-> Deref(dec["input"])])

DecodeArbitrumDeposit(dec) ==
    LET m == FirstMissing(dec, ArbDepositRequired)
    IN  IF m # <<>> THEN Fail(ErrMissing(m[1]))
        ELSE Ok([kind |-> "ArbitrumDepositTx",
                 ChainId |-> Deref(dec["chainId"]),
                 L1RequestId |-> Deref(dec["requestId"]),
                 To |-> Deref(dec["to"]), From |-> Deref(dec["from"]),
                 Value |-> Deref(dec["value"])])

DecodeArbitrumUnsigned(dec) ==
    LET m == FirstMissing(dec, ArbUnsignedRequired)
    IN  IF m # <<>> THEN Fail(ErrMissing(m[1]))
        ELSE Ok([kind |-> "ArbitrumUnsignedTx",
                 ChainId |-> Deref(dec["chainId"]), From |-> Deref(dec["from"]),
                 Nonce |-> Deref(dec["nonce"]),
                 GasFeeCap |-> Deref(dec["maxFeePerGas"]), Gas |-> Deref(dec["gas"]),
                 To |-> dec["to"], Value |-> Deref(dec["value"]),
                 Data |-> Deref(dec["input"])])

DecodeArbitrumContract(dec) ==
    LET m == FirstMissing(dec, ArbContractRequired)
    IN  IF m # <<>> THEN Fail(ErrMissing(m[1]))
        ELSE Ok([kind |-> "ArbitrumContractTx",
                 ChainId |-> Deref(dec["chainId"]),
                 RequestId |-> Deref(dec["requestId"]), From |-> Deref(dec["from"]),
                 GasFeeCap |-> Deref(dec["maxFeePerGas"]), Gas |-> Deref(dec["gas"]),
                 To |-> dec["to"], Value |-> Deref(dec["value"]),
                 Data |-> Deref(dec["input"])])

DecodeArbitrumRetry(dec) ==
    LET m == FirstMissing(dec, ArbRetryRequired)
    IN  IF m # <<>> THEN Fail(ErrMissing(m[1]))
        ELSE Ok([kind |-> "ArbitrumRetryTx",
                 ChainId |-> Deref(dec["chainId"]), Nonce |-> Deref(dec["nonce"]),
                 From |-> Deref(dec["from"]),
                 GasFeeCap |-> Deref(dec["maxFeePerGas"]), Gas |-> Deref(dec["gas"]),
                 To |-> dec["to"], Value |-> Deref(dec["value"]),
                 Data |-> Deref(dec["input"]),
                 TicketId |-> Deref(dec["ticketId"]),
                 RefundTo |-> Deref(dec["refundTo"]),
                 MaxRefund |-> Deref(dec["maxRefund"]),
                 SubmissionFeeRefund |-> Deref(dec["submissionFeeRefund"])])

DecodeArbitrumSubmitRetryable(dec) ==
    LET m == FirstMissing(dec, ArbSubmitRetryableRequired)
    IN  IF m # <<>> THEN Fail(ErrMissing(m[1]))
        ELSE Ok([kind |-> "ArbitrumSubmitRetryableTx",
                 ChainId |-> Deref(dec["chainId"]),
                 RequestId |-> Deref(dec["requestId"]), From |-> Deref(dec["from"]),
                 L1BaseFee |-> Deref(dec["l1BaseFee"]),
                 DepositValue |-> Deref(dec["depositValue"]),
                 GasFeeCap |-> Deref(dec["maxFeePerGas"]), Gas |-> Deref(dec["gas"]),
                 RetryTo |-> dec["retryTo"],
                 RetryValue |-> Deref(dec["retryValue"]),
                 Beneficiary |-> Deref(dec["beneficiary"]),
                 MaxSubmissionFee |-> Deref(dec["maxSubmissionFee"]),
                 FeeRefundAddr |-> Deref(dec["refundTo"]),
                 RetryData |-> Deref(dec["retryData"])])

\* A default case that would treat the object as a legacy transaction.
DecodeDefaultAsLegacy(dec) == DecodeLegacy(dec)

\* The default case of the switch: fmt.Println(dec.Type), return ErrTxTypeNotSupported.
DecodeDefault(dec) == Fail(ErrTxTypeNotSupported)

\* The switch on dec.Type.
DecodeByType(dec) ==
    LET t == Deref(dec["type"])
    IN  CASE t = LegacyTxType -> DecodeLegacy(dec)
          [] t = ZetaCosmosEVMTxType -> DecodeZeta(dec)
          [] t = AccessListTxType -> DecodeAccessList(dec)
          [] t = DynamicFeeTxType -> DecodeDynamicFee(dec)
          [] t = BlobTxType -> DecodeBlob(dec)
          [] t = DepositTxType -> DecodeDeposit(dec)
          [] t = ArbitrumLegacyTxType -> DecodeArbitrumLegacy(dec)
          [] t = ArbitrumInternalTxType -> DecodeArbitrumInternal(dec)
          [] t = ArbitrumDepositTxType -> DecodeArbitrumDeposit(dec)
          [] t = ArbitrumUnsignedTxType -> DecodeArbitrumUnsigned(dec)
          [] t = ArbitrumContractTxType -> DecodeArbitrumContract(dec)
          [] t = ArbitrumRetryTxType -> DecodeArbitrumRetry(dec)
          [] t = ArbitrumSubmitRetryableTxType -> DecodeArbitrumSubmitRetryable(dec)
          [] OTHER -> DecodeDefault(dec)

\* The whole of UnmarshalJSON up to the assignment of the receiver: json.Unmarshal
\* into txJSON, then the switch.  A JSON text is [malformed, obj].
Malformed == [malformed |-> TRUE, obj |-> [k \in Keys |-> JAbsent]]
Text(obj) == [malformed |-> FALSE, obj |-> obj]

DecodeJSON(text) ==
    IF text.malformed THEN Fail(ErrSyntax)
    ELSE DecodeByType(jsonUnmarshal(text.obj))

-----------------------------------------------------------------------------
(* Payload accessors.                                                      *)

NoTx == [kind |-> "nil"]

WrapperKinds == {"depositTxWithNonce", "depositMantleTxWithNonce"}

\* The payload embedded in an effective-nonce wrapper.
Embedded(tx) ==
    IF tx.kind = "depositTxWithNonce" THEN tx.DepositTx ELSE tx.DepositTxMantle

\* txType(): the wrappers and ArbitrumLegacyTxData have none of their own and
\* promote (or, for the latter, replace) that of the embedded payload.
txType(tx) ==
    CASE tx.kind = "LegacyTx" -> LegacyTxType
      [] tx.kind = "ZetaCosmosEVMTx" -> ZetaCosmosEVMTxType
      [] tx.kind = "AccessListTx" -> AccessListTxType
      [] tx.kind = "DynamicFeeTx" -> DynamicFeeTxType
      [] tx.kind = "BlobTx" -> BlobTxType
      [] tx.kind \in {"DepositTx", "DepositTxMantle", "L1MessageTx"} -> DepositTxType
      [] tx.kind \in WrapperKinds -> DepositTxType
      [] tx.kind = "ArbitrumLegacyTxData" -> ArbitrumLegacyTxType
      [] tx.kind = "ArbitrumInternalTx" -> ArbitrumInternalTxType
      [] tx.kind = "ArbitrumDepositTx" -> ArbitrumDepositTxType
      [] tx.kind = "ArbitrumUnsignedTx" -> ArbitrumUnsignedTxType
      [] tx.kind = "ArbitrumContractTx" -> ArbitrumContractTxType
      [] tx.kind = "ArbitrumRetryTx" -> ArbitrumRetryTxType
      [] tx.kind = "ArbitrumSubmitRetryableTx" -> ArbitrumSubmitRetryableTxType

\* DepositTxMantle.nonce(): return 0.
DepositTxMantleNonce(tx) == 0
\* DepositTx.nonce(): a deposit has no nonce of its own.
DepositTxNonce(tx) == 0

\* nonce() of a bare deposit payload.
DepositNonce(tx) ==
    IF tx.kind = "DepositTx" THEN DepositTxNonce(tx) ELSE DepositTxMantleNonce(tx)

\* A nonce() that a wrapper would declare itself, returning its override.
OverrideNonce(tx) == tx.EffectiveNonce

\* nonce() of an effective-nonce wrapper: the wrappers declare skipAccountChecks,
\* EncodeRLP and effectiveNonce only, so nonce() is the embedded payload's.
WrapperNonce(tx) == DepositNonce(Embedded(tx))

\* effectiveNonce(): nil for a bare DepositTxMantle, &tx.EffectiveNonce for a wrapper.
MantleEffectiveNonce(tx) == Nil
WrapperEffectiveNonce(tx) == Some(tx.EffectiveNonce)

\* to(): the recipient pointer.
to(tx) ==
    CASE tx.kind \in WrapperKinds -> Embedded(tx).To
      [] tx.kind = "ArbitrumLegacyTxData" -> tx.LegacyTx.To
      [] tx.kind = "ArbitrumDepositTx" -> Some(tx.To)
      [] tx.kind = "ArbitrumInternalTx" -> Nil
      [] tx.kind = "ArbitrumSubmitRetryableTx" -> Nil
      [] OTHER -> tx.To

-----------------------------------------------------------------------------
(* Canonical binary encoding.  An encoding is the list of the byte strings *)
(* of the fields in struct order (RLP is injective on such lists, so the   *)
(* length headers are left out).                                           *)

\* A big integer or uint64 as a minimal-length big-endian byte string.
RECURSIVE BigBytes(_)
BigBytes(n) == IF n = 0 THEN <<>> ELSE Append(BigBytes(n \div 256), n % 256)

RECURSIVE BytesToBig(_)
BytesToBig(b) ==
    IF b = <<>> THEN 0 ELSE BytesToBig(SubSeq(b, 1, Len(b) - 1)) * 256 + b[Len(b)]

\* An address or hash: a byte string of fixed width (one byte stands for the width).
FixedBytes(a) == <<a>>
BoolBytes(b) == IF b THEN <<1>> ELSE <<>>

\* A pointer field tagged rlp:"nil": the empty string for nil.
NilAddr(p) == IF IsNil(p) THEN <<>> ELSE FixedBytes(Deref(p))
NilBig(p) == IF IsNil(p) THEN <<>> ELSE BigBytes(Deref(p))

\* rlp.Encode of a DepositTxMantle: the trailing field tagged rlp:"optional" is
\* left out when it is nil.
EncodeDepositTxMantle(tx) ==
    <<FixedBytes(tx.SourceHash), FixedBytes(tx.From), NilAddr(tx.To), NilBig(tx.Mint),
      BigBytes(tx.Value), BigBytes(tx.Gas), BoolBytes(tx.IsSystemTransaction),
      NilBig(tx.EthValue), tx.Data>>
    \o (IF IsNil(tx.EthTxValue) THEN <<>> ELSE <<BigBytes(Deref(tx.EthTxValue))>>)

\* rlp.Encode of a DepositTx.
EncodeDepositTx(tx) ==
    <<FixedBytes(tx.SourceHash), FixedBytes(tx.From), NilAddr(tx.To), NilBig(tx.Mint),
      BigBytes(tx.Value), BigBytes(tx.Gas), BoolBytes(tx.IsSystemTransaction), tx.Data>>

\* An encoding of the wrapper that would write the override after the payload.
EncodeDepositTxAndNonce(tx) == EncodeDepositTx(tx.DepositTx) \o <<BigBytes(tx.EffectiveNonce)>>

\* depositTxWithNonce.EncodeRLP: rlp.Encode(w, tx.DepositTx).
EncodeRLPDepositTxWithNonce(tx) == EncodeDepositTx(tx.DepositTx)

\* depositMantleTxWithNonce.EncodeRLP: rlp.Encode(w, tx.DepositTxMantle).
EncodeRLPDepositMantleTxWithNonce(tx) == EncodeDepositTxMantle(tx.DepositTxMantle)

EncodeLegacyFields(tx) ==
    <<BigBytes(tx.Nonce), BigBytes(tx.GasPrice), BigBytes(tx.Gas), NilAddr(tx.To),
      BigBytes(tx.Value), tx.Data, BigBytes(tx.V), BigBytes(tx.R), BigBytes(tx.S)>>

\* rlp.Encode of tx.inner, for every payload kind.
EncodeRLP(tx) ==
    CASE tx.kind = "depositTxWithNonce" -> EncodeRLPDepositTxWithNonce(tx)
      [] tx.kind = "depositMantleTxWithNonce" -> EncodeRLPDepositMantleTxWithNonce(tx)
      [] tx.kind = "DepositTx" -> EncodeDepositTx(tx)
      [] tx.kind = "DepositTxMantle" -> EncodeDepositTxMantle(tx)
      [] tx.kind = "LegacyTx" -> EncodeLegacyFields(tx)
      [] tx.kind = "ZetaCosmosEVMTx" ->
            <<FixedBytes(tx.BlockHash), FixedBytes(tx.TxHash)>> \o EncodeLegacyFields(tx)
      [] tx.kind = "AccessListTx" ->
            <<BigBytes(tx.ChainID), BigBytes(tx.Nonce), BigBytes(tx.GasPrice),
              BigBytes(tx.Gas), NilAddr(tx.To), BigBytes(tx.Value), tx.Data,
              tx.AccessList, BigBytes(tx.V), BigBytes(tx.R), BigBytes(tx.S)>>
      [] tx.kind = "DynamicFeeTx" ->
            <<BigBytes(tx.ChainID), BigBytes(tx.Nonce), BigBytes(tx.GasTipCap),
              BigBytes(tx.GasFeeCap), BigBytes(tx.Gas), NilAddr(tx.To),
              BigBytes(tx.Value), tx.Data, tx.AccessList,
              BigBytes(tx.V), BigBytes(tx.R), BigBytes(tx.S)>>
      [] tx.kind = "BlobTx" ->
            <<BigBytes(tx.ChainID), BigBytes(tx.Nonce), BigBytes(tx.GasTipCap),
              BigBytes(tx.GasFeeCap), BigBytes(tx.Gas), NilAddr(tx.To),
              BigBytes(tx.Value), tx.Data, tx.AccessList, BigBytes(tx.BlobFeeCap),
              tx.BlobHashes, BigBytes(tx.V), BigBytes(tx.R), BigBytes(tx.S)>>
      [] tx.kind = "L1MessageTx" ->
            <<BigBytes(tx.QueueIndex), BigBytes(tx.Gas), NilAddr(tx.To),
              BigBytes(tx.Value), tx.Data, FixedBytes(tx.Sender)>>
      [] tx.kind = "ArbitrumLegacyTxData" ->
            EncodeLegacyFields(tx.LegacyTx)
            \o <<FixedBytes(tx.HashOverride), BigBytes(tx.EffectiveGasPrice),
                 BigBytes(tx.L1BlockNumber), NilAddr(tx.Sender)>>
      [] tx.kind = "ArbitrumInternalTx" -> <<BigBytes(tx.ChainId), tx.Data>>
      [] tx.kind = "ArbitrumDepositTx" ->
            <<BigBytes(tx.ChainId), FixedBytes(tx.L1RequestId), FixedBytes(tx.From),
              FixedBytes(tx.To), BigBytes(tx.Value)>>
      [] tx.kind = "ArbitrumUnsignedTx" ->
            <<BigBytes(tx.ChainId), FixedBytes(tx.From), BigBytes(tx.Nonce),
              BigBytes(tx.GasFeeCap), BigBytes(tx.Gas), NilAddr(tx.To),
              BigBytes(tx.Value), tx.Data>>
      [] tx.kind = "ArbitrumContractTx" ->
            <<BigBytes(tx.ChainId), FixedBytes(tx.RequestId), FixedBytes(tx.From),
              BigBytes(tx.GasFeeCap), BigBytes(tx.Gas), NilAddr(tx.To),
              BigBytes(tx.Value), tx.Data>>
      [] tx.kind = "ArbitrumRetryTx" ->
            <<BigBytes(tx.ChainId), BigBytes(tx.Nonce), FixedBytes(tx.From),
              BigBytes(tx.GasFeeCap), BigBytes(tx.Gas), NilAddr(tx.To),
              BigBytes(tx.Value), tx.Data, FixedBytes(tx.TicketId),
              FixedBytes(tx.RefundTo), BigBytes(tx.MaxRefund),
              BigBytes(tx.SubmissionFeeRefund)>>
      [] tx.kind = "ArbitrumSubmitRetryableTx" ->
            <<BigBytes(tx.ChainId), FixedBytes(tx.RequestId), FixedBytes(tx.From),
              BigBytes(tx.L1BaseFee), BigBytes(tx.DepositValue),
              BigBytes(tx.GasFeeCap), BigBytes(tx.Gas), NilAddr(tx.RetryTo),
              BigBytes(tx.RetryValue), FixedBytes(tx.Beneficiary),
              BigBytes(tx.MaxSubmissionFee), FixedBytes(tx.FeeRefundAddr),
              tx.RetryData>>

\* A digest of a byte string (a stand-in for Keccak-256: a function of the bytes only).
RECURSIVE Digest(_, _)
Digest(h, b) ==
    IF b = <<>> THEN h ELSE Digest((h * 31 + Head(b) + 1) % 65521, Tail(b))

RECURSIVE DigestItems(_, _)
DigestItems(h, items) ==
    IF items = <<>> THEN h
    ELSE DigestItems(Digest((h * 31 + Len(Head(items)) + 7) % 65521, Head(items)),
                     Tail(items))

\* Transaction.Hash(): the digest of the type byte followed by the encoding of the
\* payload.
Hash(tx) == DigestItems(txType(tx) + 1, EncodeRLP(tx))

-----------------------------------------------------------------------------
(* MarshalJSON.                                                            *)

\* enc with the fields named by the record `a` set to non-nil pointers.
WithFields(enc, a) == [k \in Keys |-> IF k \in DOMAIN a THEN Some(a[k]) ELSE enc[k]]
\* enc with one pointer field copied from a payload's pointer.
WithPtr(enc, k, p) == [enc EXCEPT ![k] = p]

\* The txJSON that MarshalJSON fills: hash and type for every payload, the other
\* fields by the type switch on tx.inner, which has five cases.
EncodeJSON(tx) ==
    LET base == WithFields(txJSON, [hash |-> Hash(tx), type |-> txType(tx)])
    IN  CASE tx.kind \in {"LegacyTx", "ZetaCosmosEVMTx"} ->
               WithPtr(WithFields(base,
                   [nonce |-> tx.Nonce, gas |-> tx.Gas, gasPrice |-> tx.GasPrice,
                    value |-> tx.Value, input |-> tx.Data,
                    v |-> tx.V, r |-> tx.R, s |-> tx.S]), "to", to(tx))
          [] tx.kind = "AccessListTx" ->
               WithPtr(WithFields(base,
                   [chainId |-> tx.ChainID, nonce |-> tx.Nonce, gas |-> tx.Gas,
                    gasPrice |-> tx.GasPrice, value |-> tx.Value, input |-> tx.Data,
                    accessList |-> tx.AccessList,
                    v |-> tx.V, r |-> tx.R, s |-> tx.S]), "to", to(tx))
          [] tx.kind = "DynamicFeeTx" ->
               WithPtr(WithFields(base,
                   [chainId |-> tx.ChainID, nonce |-> tx.Nonce, gas |-> tx.Gas,
                    maxFeePerGas |-> tx.GasFeeCap,
                    maxPriorityFeePerGas |-> tx.GasTipCap,
                    value |-> tx.Value, input |-> tx.Data,
                    accessList |-> tx.AccessList,
                    v |-> tx.V, r |-> tx.R, s |-> tx.S]), "to", to(tx))
          [] tx.kind = "BlobTx" ->
               WithPtr(WithFields(base,
                   [chainId |-> tx.ChainID, nonce |-> tx.Nonce, gas |-> tx.Gas,
                    maxFeePerGas |-> tx.GasFeeCap,
                    maxPriorityFeePerGas |-> tx.GasTipCap,
                    maxFeePerDataGas |-> tx.BlobFeeCap,
                    value |-> tx.Value, input |-> tx.Data,
                    accessList |-> tx.AccessList,
                    blobVersionedHashes |-> tx.BlobHashes,
                    v |-> tx.V, r |-> tx.R, s |-> tx.S]), "to", to(tx))
          [] OTHER -> base

-----------------------------------------------------------------------------
(* DepositTxMantle.decode: rlp.DecodeBytes(input, tx).                     *)

ErrRLP == [kind |-> "rlp: input does not match the struct", field |-> ""]

\* A canonical integer has no leading zero byte.
CanonicalInt(b) == b = <<>> \/ b[1] # 0

\* A *big.Int is decoded by the big-integer decoder whatever its tag: the empty
\* string allocates a zero, it does not leave the pointer nil.  A missing
\* rlp:"optional" field keeps the zero value of the pointer, nil.
DecodeDepositTxMantle(items) ==
    IF \/ Len(items) \notin {9, 10}
       \/ Len(items[1]) # 1 \/ Len(items[2]) # 1 \/ Len(items[3]) \notin {0, 1}
       \/ ~CanonicalInt(items[4]) \/ ~CanonicalInt(items[5]) \/ ~CanonicalInt(items[6])
       \/ items[7] \notin {<<>>, <<1>>}
       \/ ~CanonicalInt(items[8])
       \/ (Len(items) = 10 /\ ~CanonicalInt(items[10]))
    THEN Fail(ErrRLP)
    ELSE Ok([kind |-> "DepositTxMantle",
             SourceHash |-> items[1][1], From |-> items[2][1],
             To |-> IF items[3] = <<>> THEN Nil ELSE Some(items[3][1]),
             Mint |-> Some(BytesToBig(items[4])),
             Value |-> BytesToBig(items[5]),
             Gas |-> BytesToBig(items[6]),
             IsSystemTransaction |-> items[7] = <<1>>,
             EthValue |-> Some(BytesToBig(items[8])),
             Data |-> items[9],
             EthTxValue |-> IF Len(items) = 10 THEN Some(BytesToBig(items[10])) ELSE Nil])

-----------------------------------------------------------------------------
(* Generated inputs: JSON texts.                                           *)

\* The JSON object with the keys of record `a` set to its values.
Obj(a) == [k \in Keys |-> IF k \in DOMAIN a THEN JVal(a[k]) ELSE JAbsent]
\* Object `o` with the keys of function `e` replaced by the JSON values `e` gives.
Edit(o, e) == [k \in Keys |-> IF k \in DOMAIN e THEN e[k] ELSE o[k]]

Vals == 0 .. MaxVal

LegacyLike(t, n) ==
    [type |-> t, nonce |-> n, to |-> 1, gas |-> n, gasPrice |-> n, value |-> n,
     input |-> <<1>>]
DynamicFeeLike(t, n) ==
    [type |-> t, chainId |-> n, nonce |-> n, to |-> 1, gas |-> n,
     maxPriorityFeePerGas |-> n, maxFeePerGas |-> n, value |-> n, input |-> <<1>>,
     accessList |-> <<>>]
DepositLike(n) ==
    [type |-> DepositTxType, sourceHash |-> 1, from |-> 1, to |-> 1, mint |-> n,
     value |-> n, gas |-> n, isSystemTx |-> FALSE, input |-> <<1>>]
ArbLike(t, n) ==
    [type |-> t, chainId |-> n, from |-> 1, maxFeePerGas |-> n, gas |-> n,
     to |-> 1, value |-> n, input |-> <<1>>]

SignedShapes ==
    {"legacy", "zeta", "accessList", "dynamicFee", "blob", "arbLegacy", "scenario"}
DepositShapes == {"deposit", "depositMantle", "l1Message", "depositMantleSender"}
PlainShapes ==
    {"arbInternal", "arbDeposit", "arbUnsigned", "arbContract", "arbRetry",
     "arbSubmitRetryable", "unknown", "otherUnknown"}

\* A well-formed object of each shape, without its signature, all numbers n.
Template(shape, n) ==
    CASE shape = "legacy" -> LegacyLike(LegacyTxType, n)
      [] shape = "zeta" -> LegacyLike(ZetaCosmosEVMTxType, n) @@ [hash |-> 1, blockHash |-> 1]
      [] shape = "accessList" ->
            LegacyLike(AccessListTxType, n) @@ [chainId |-> n, accessList |-> <<>>]
      [] shape = "dynamicFee" -> DynamicFeeLike(DynamicFeeTxType, n)
      [] shape = "blob" ->
            DynamicFeeLike(BlobTxType, n)
            @@ [maxFeePerBlobGas |-> n, blobVersionedHashes |-> <<1>>]
      [] shape = "arbLegacy" ->
            LegacyLike(ArbitrumLegacyTxType, n)
            @@ [effectiveGasPrice |-> n, l1BlockNumber |-> n, hash |-> 1, from |-> 1]
      [] shape = "deposit" -> DepositLike(n)
      [] shape = "depositMantle" -> DepositLike(n) @@ [ethValue |-> n, ethTxValue |-> n]
      [] shape = "depositMantleSender" ->
            DepositLike(n) @@ [ethValue |-> n, sender |-> 1, queueIndex |-> n]
      [] shape = "scenario" ->
            [type |-> DynamicFeeTxType, chainId |-> 1, nonce |-> 5, to |-> 1,
             gas |-> 21000, maxFeePerGas |-> 1000000000,
             maxPriorityFeePerGas |-> 1000000000, value |-> 0, input |-> <<>>,
             accessList |-> <<>>]
      [] shape = "l1Message" ->
            [type |-> DepositTxType, sender |-> 1, queueIndex |-> n, gas |-> n,
             to |-> 1, value |-> n, input |-> <<1>>]
      [] shape = "arbInternal" ->
            [type |-> ArbitrumInternalTxType, chainId |-> n, input |-> <<1>>]
      [] shape = "arbDeposit" ->
            [type |-> ArbitrumDepositTxType, chainId |-> n, requestId |-> 1,
             to |-> 1, from |-> 1, value |-> n]
      [] shape = "arbUnsigned" -> ArbLike(ArbitrumUnsignedTxType, n) @@ [nonce |-> n]
      [] shape = "arbContract" -> ArbLike(ArbitrumContractTxType, n) @@ [requestId |-> 1]
      [] shape = "arbRetry" ->
            ArbLike(ArbitrumRetryTxType, n)
            @@ [nonce |-> n, ticketId |-> 1, refundTo |-> 1, maxRefund |-> n,
                submissionFeeRefund |-> n]
      [] shape = "arbSubmitRetryable" ->
            [type |-> ArbitrumSubmitRetryableTxType, chainId |-> n, requestId |-> 1,
             from |-> 1, l1BaseFee |-> n, depositValue |-> n, maxFeePerGas |-> n,
             gas |-> n, beneficiary |-> 1, maxSubmissionFee |-> n, refundTo |-> 1,
             retryTo |-> 1, retryValue |-> n, retryData |-> <<1>>]
      [] shape = "unknown" -> LegacyLike(255, n)
      [] shape = "otherUnknown" -> LegacyLike(127, n)

\* Signature triples tried on the signed shapes: v around the legal values of the
\* legacy-style scheme (27, 28, 35 and up) or of the typed schemes (0, 1).
SigV(shape) ==
    IF shape \in {"legacy", "zeta", "arbLegacy"} THEN {0, 26, 27, 28, 37} ELSE {0, 1, 2, 27}
Sigs(shape) == {[v |-> v, r |-> r, s |-> s] : v \in SigV(shape), r \in {0, 1}, s \in {0, 1}}

\* The subsets of `keys` with at most m elements.
RECURSIVE SubsetsUpTo(_, _)
SubsetsUpTo(keys, m) ==
    IF m = 0 THEN {{}}
    ELSE LET S == SubsetsUpTo(keys, m - 1)
         IN  S \cup {X \cup {k} : X \in S, k \in keys}

\* Removals: at most MaxRemoved keys of an object, each made absent or null.
Removals(keys) ==
    {[k \in R |-> j] : R \in SubsetsUpTo(keys, MaxRemoved), j \in {JAbsent, JNull}}

\* Keys a deposit-type object must not carry, and at most one of them added,
\* empty or zero.
ForbiddenKeys == {"accessList", "maxFeePerGas", "maxPriorityFeePerGas"}
ForbiddenAdded ==
    {<<>>} \cup {[k \in {"accessList"} |-> JVal(<<>>)]}
           \cup {[k \in {f} |-> JVal(0)] : f \in ForbiddenKeys \ {"accessList"}}

\* Keys a deposit-type object may carry only as zero: each absent, zero or one.
FixedZeroKeys == {"gasPrice", "v", "r", "s"}
FixedZeroAll == [FixedZeroKeys -> {JAbsent, JVal(0), JVal(1)}]
FixedZeroFew == {[k \in FixedZeroKeys |-> j] : j \in {JAbsent, JVal(0)}}

NonceAdded(n) == {<<>>, [k \in {"nonce"} |-> JVal(n)]}

SignedInputsOf(shape, n) ==
    {Edit(Obj(Template(shape, n) @@ sig), rem) :
        sig \in Sigs(shape),
        rem \in Removals((DOMAIN Template(shape, n) \cup {"v", "r", "s"}) \ {"type"})}

PlainInputsOf(shape, n) ==
    {Edit(Obj(Template(shape, n)), rem) :
        rem \in Removals(DOMAIN Template(shape, n) \ {"type"})}

\* Deposit-type objects: every combination of the fixed-zero keys on a complete
\* object, and removals from an object with the fixed-zero keys absent or zero.
DepositInputsOf(shape, n) ==
    {Edit(Edit(Edit(Obj(Template(shape, n)), fz), forb), nonce) :
        fz \in FixedZeroAll, forb \in ForbiddenAdded, nonce \in NonceAdded(n)}
    \cup
    {Edit(Edit(Edit(Edit(Obj(Template(shape, n)), fz), forb), nonce), rem) :
        fz \in FixedZeroFew, forb \in ForbiddenAdded, nonce \in NonceAdded(n),
        rem \in Removals(DOMAIN Template(shape, n) \ {"type"})}

Shapes == SignedShapes \cup PlainShapes \cup DepositShapes

\* The JSON texts generated for one shape and one number.
JSONInputs(shape, n) ==
    {Malformed} \cup
    {Text(o) : o \in IF shape \in SignedShapes THEN SignedInputsOf(shape, n)
                     ELSE IF shape \in DepositShapes THEN DepositInputsOf(shape, n)
                     ELSE PlainInputsOf(shape, n)}

\* A payload a receiver may hold before UnmarshalJSON is called on it.
SomeLegacyTx ==
    [kind |-> "LegacyTx", Nonce |-> 7, To |-> Nil, Gas |-> 7, GasPrice |-> 7,
     Value |-> 7, Data |-> <<7>>, V |-> 27, R |-> 7, S |-> 7]
Receivers == {NoTx, SomeLegacyTx}

-----------------------------------------------------------------------------
(* Generated inputs: deposit payloads and their effective-nonce wrappers.  *)

OptVals == {Nil} \cup {Some(n) : n \in Vals}

DepositTxs ==
    {[kind |-> "DepositTx", SourceHash |-> 1, From |-> 1, To |-> t, Mint |-> m,
      Value |-> v, Gas |-> 1, IsSystemTransaction |-> FALSE, Data |-> d] :
        t \in {Nil, Some(1)}, m \in OptVals, v \in Vals, d \in {<<>>, <<1>>}}

DepositTxMantles ==
    {[kind |-> "DepositTxMantle", SourceHash |-> 1, From |-> 1, To |-> t, Mint |-> m,
      Value |-> v, Gas |-> 1, IsSystemTransaction |-> sys, EthValue |-> e,
      Data |-> <<1>>, EthTxValue |-> x] :
        t \in {Nil, Some(1)}, m \in OptVals, v \in Vals, sys \in BOOLEAN,
        e \in OptVals, x \in OptVals}

Wrappers ==
    {[kind |-> "depositTxWithNonce", DepositTx |-> d, EffectiveNonce |-> n] :
        d \in DepositTxs, n \in 0 .. MaxNonce}
    \cup
    {[kind |-> "depositMantleTxWithNonce", DepositTxMantle |-> d, EffectiveNonce |-> n] :
        d \in DepositTxMantles, n \in 0 .. MaxNonce}

DepositPayloads == DepositTxs \cup DepositTxMantles \cup Wrappers

-----------------------------------------------------------------------------
(* The JSON codec as a state machine: a receiver Transaction, the JSON     *)
(* text at hand, and the calls made on them.                               *)

NoWire == <<>>

Init ==
    /\ \E shape \in Shapes, n \in Vals : input \in JSONInputs(shape, n)
    /\ inner \in Receivers
    /\ err = NoErr
    /\ op = "init"
    /\ source = NoTx
    /\ wire = NoWire
    /\ ret = Nil
    /\ heap = <<>> /\ cpy = NoTx /\ writes = 0
    /\ VMIdle

\* A receiver that would be assigned whatever the decode produced, error or not.
AfterUnmarshalAlways(res, old) == res.inner

\* The receiver after UnmarshalJSON: every error is returned before
\* tx.setDecoded(inner, 0), which alone assigns tx.inner.
AfterUnmarshal(res, old) == IF res.err = NoErr THEN res.inner ELSE old

\* tx.UnmarshalJSON(input)
UnmarshalJSON ==
    LET res == DecodeJSON(input)
    IN  /\ inner' = AfterUnmarshal(res, inner)
        /\ err' = res.err
        /\ op' = "UnmarshalJSON"
        /\ UNCHANGED <<input, source, wire, ret>>
        /\ UNCHANGED copyVars
        /\ UNCHANGED vmVars

\* tx.MarshalJSON(): needs a payload (tx.Hash() dereferences tx.inner).
MarshalJSON ==
    /\ inner # NoTx
    /\ input' = Text(jsonMarshal(EncodeJSON(inner)))
    /\ source' = inner
    /\ err' = NoErr
    /\ op' = "MarshalJSON"
    /\ UNCHANGED <<inner, wire, ret>>
    /\ UNCHANGED copyVars
    /\ UNCHANGED vmVars

Next == UnmarshalJSON \/ MarshalJSON

Spec == Init /\ [][Next]_vars

-----------------------------------------------------------------------------
(* The deposit payloads as a state machine: a Transaction holding a        *)
(* deposit payload or a wrapper, and the calls made on it.                 *)

InitPayload ==
    /\ inner \in DepositPayloads
    /\ input = Malformed
    /\ err = NoErr
    /\ op = "init"
    /\ source = NoTx
    /\ wire = NoWire
    /\ ret = Nil
    /\ heap = <<>> /\ cpy = NoTx /\ writes = 0
    /\ VMIdle

\* rlp.Encode(w, tx.inner): the canonical encoding, the one Hash() digests.
EncodeRLPCall ==
    /\ wire' = EncodeRLP(inner)
    /\ source' = inner
    /\ ret' = Some(Hash(inner))
    /\ err' = NoErr
    /\ op' = "EncodeRLP"
    /\ UNCHANGED <<inner, input>>
    /\ UNCHANGED copyVars
    /\ UNCHANGED vmVars

\* tx.decode(input) on a DepositTxMantle receiver, given the bytes last encoded.
DecodeCall ==
    LET res == DecodeDepositTxMantle(wire)
    IN  /\ op \in {"EncodeRLP", "decode"}
        /\ inner' = IF res.err = NoErr THEN res.inner ELSE inner
        /\ err' = res.err
        /\ op' = "decode"
        /\ UNCHANGED <<input, source, wire, ret>>
        /\ UNCHANGED copyVars
        /\ UNCHANGED vmVars

\* tx.inner.nonce()
NonceCall ==
    /\ ret' = Some(IF inner.kind \in WrapperKinds THEN WrapperNonce(inner)
                   ELSE DepositNonce(inner))
    /\ err' = NoErr
    /\ op' = "nonce"
    /\ UNCHANGED <<inner, input, source, wire>>
    /\ UNCHANGED copyVars
    /\ UNCHANGED vmVars

\* tx.inner.effectiveNonce()
EffectiveNonceCall ==
    /\ ret' = IF inner.kind \in WrapperKinds THEN WrapperEffectiveNonce(inner)
              ELSE MantleEffectiveNonce(inner)
    /\ err' = NoErr
    /\ op' = "effectiveNonce"
    /\ UNCHANGED <<inner, input, source, wire>>
    /\ UNCHANGED copyVars
    /\ UNCHANGED vmVars


-----------------------------------------------------------------------------
(* copy() of ZetaCosmosEVMTx and DepositTxMantle.  Here a payload has its   *)
(* *big.Int, *common.Address and []byte fields as addresses of heap cells   *)
(* (0 is nil); a write through such a field changes the cell.               *)

\* The pointer and slice fields of each struct.
PointerFields(kind) ==
    IF kind = "DepositTxMantle"
    THEN <<"To", "Mint", "Value", "EthValue", "Data", "EthTxValue">>
    ELSE <<"GasPrice", "To", "Value", "Data", "V", "R", "S">>
PointerFieldSet(kind) ==
    {PointerFields(kind)[i] : i \in 1 .. Len(PointerFields(kind))}

\* Fields that may be nil: nilable pointers, and a slice without bytes.
NilableFields == {"To", "Mint", "EthValue", "EthTxValue", "Data"}

\* The payload `tx` given by value, laid out in the heap `h` field by field.
RECURSIVE Place(_, _, _)
Place(h, tx, fs) ==
    IF fs = <<>> THEN [heap |-> h, tx |-> tx]
    ELSE LET f == Head(fs)
         IN  IF f \in NilableFields /\ tx[f] = <<>>
             THEN Place(h, [tx EXCEPT ![f] = 0], Tail(fs))
             ELSE Place(Append(h, IF f \in NilableFields THEN tx[f][1] ELSE tx[f]),
                        [tx EXCEPT ![f] = Len(h) + 1], Tail(fs))

\* The payload at `p` read by value out of the heap `h`.
View(h, p) ==
    [f \in DOMAIN p |->
        IF f \notin PointerFieldSet(p.kind) THEN p[f]
        ELSE IF f \in NilableFields THEN (IF p[f] = 0 THEN <<>> ELSE <<h[p[f]]>>)
        ELSE (IF p[f] = 0 THEN 0 ELSE h[p[f]])]

\* if x != nil { new(big.Int).Set(x) }: nil for nil, a fresh cell with the same
\* content otherwise.
Fresh(h, a) ==
    IF a = 0 THEN [heap |-> h, ref |-> 0]
    ELSE [heap |-> Append(h, h[a]), ref |-> Len(h) + 1]

\* copyAddressPtr(a) and common.CopyBytes(b): nil for nil, a fresh address or
\* backing array otherwise.
copyAddressPtr(h, a) == Fresh(h, a)
CopyBytes(h, b) == Fresh(h, b)

\* new(big.Int), then Set(x) if x is not nil: always a fresh cell.
FreshBig(h, a) == [heap |-> Append(h, IF a = 0 THEN 0 ELSE h[a]), ref |-> Len(h) + 1]

\* DepositTxMantle.copy(): EthValue and EthTxValue are not among the fields set.
CopyDepositTxMantleFields(h, tx) ==
    LET toPtr == copyAddressPtr(h, tx.To)
        mint == Fresh(toPtr.heap, tx.Mint)
        value == FreshBig(mint.heap, tx.Value)
        data == CopyBytes(value.heap, tx.Data)
    IN  [heap |-> data.heap,
         tx |-> [kind |-> "DepositTxMantle",
                 SourceHash |-> tx.SourceHash, From |-> tx.From, To |-> toPtr.ref,
                 Mint |-> mint.ref, Value |-> value.ref, Gas |-> tx.Gas,
                 IsSystemTransaction |-> tx.IsSystemTransaction,
                 EthValue |-> 0, Data |-> data.ref, EthTxValue |-> 0]]

\* A copy that would hand out the original's Data slice instead of its own.
CopyDepositTxMantleSharingData(h, tx) ==
    LET r == CopyDepositTxMantleFields(h, tx)
    IN  [r EXCEPT !.tx.Data = tx.Data]

CopyDepositTxMantle(h, tx) == CopyDepositTxMantleFields(h, tx)

\* ZetaCosmosEVMTx.copy(): BlockHash and TxHash are not among the fields set.
CopyZetaCosmosEVMTx(h, tx) ==
    LET toPtr == copyAddressPtr(h, tx.To)
        data == CopyBytes(toPtr.heap, tx.Data)
        value == FreshBig(data.heap, tx.Value)
        gasPrice == FreshBig(value.heap, tx.GasPrice)
        v == FreshBig(gasPrice.heap, tx.V)
        r == FreshBig(v.heap, tx.R)
        sv == FreshBig(r.heap, tx.S)
    IN  [heap |-> sv.heap,
         tx |-> [kind |-> "ZetaCosmosEVMTx", TxHash |-> 0, BlockHash |-> 0,
                 Nonce |-> tx.Nonce, To |-> toPtr.ref, Gas |-> tx.Gas,
                 GasPrice |-> gasPrice.ref, Value |-> value.ref, Data |-> data.ref,
                 V |-> v.ref, R |-> r.ref, S |-> sv.ref]]

copy(h, tx) ==
    IF tx.kind = "DepositTxMantle" THEN CopyDepositTxMantle(h, tx)
    ELSE CopyZetaCosmosEVMTx(h, tx)

\* copy() called on a payload given by value, and the payload it returns read
\* by value.
CopyByValue(tx) ==
    LET placed == Place(<<>>, tx, PointerFields(tx.kind))
        r == copy(placed.heap, placed.tx)
    IN  View(r.heap, r.tx)

\* copy() of an effective-nonce wrapper: the wrappers declare skipAccountChecks,
\* EncodeRLP and effectiveNonce only, so copy() is the embedded payload's and
\* returns a bare payload.
WrapperCopy(tx) == CopyByValue(Embedded(tx))

\* effectiveNonce() of any deposit payload.
effectiveNonce(tx) ==
    IF tx.kind \in WrapperKinds THEN WrapperEffectiveNonce(tx)
    ELSE MantleEffectiveNonce(tx)

\* cpy := tx.inner.copy(); cpy.effectiveNonce(), for a DepositTxMantle or a
\* wrapper of one.
CopyPayloadCall ==
    /\ (IF inner.kind \in WrapperKinds THEN Embedded(inner).kind ELSE inner.kind)
          = "DepositTxMantle"
    /\ LET c == IF inner.kind \in WrapperKinds THEN WrapperCopy(inner)
                ELSE CopyByValue(inner)
       IN  cpy' = c /\ ret' = effectiveNonce(c)
    /\ err' = NoErr
    /\ op' = "copy"
    /\ UNCHANGED <<inner, input, source, wire, heap, writes>>
    /\ UNCHANGED vmVars

\* panic("implement me"): the call does not return.
ErrPanic == [kind |-> "panic", field |-> "implement me"]
Abort == [ret |-> Nil, err |-> ErrPanic]
Return(v) == [ret |-> Some(v), err |-> NoErr]

\* The accessors of DepositTxMantle whose body is panic("implement me"), and
\* those that return a value.
UnimplementedAccessors ==
    {"skipAccountChecks", "blobGas", "blobGasFeeCap", "blobHashes"}
Accessors ==
    UnimplementedAccessors \cup {"txType", "chainID", "gas", "value", "isSystemTx"}

\* An accessor of a DepositTxMantle.
MantleAccessor(tx, a) ==
    CASE a \in UnimplementedAccessors -> Abort
      [] a = "txType" -> Return(DepositTxType)
      [] a = "chainID" -> Return(0)
      [] a = "gas" -> Return(tx.Gas)
      [] a = "value" -> Return(tx.Value)
      [] a = "isSystemTx" -> Return(tx.IsSystemTransaction)

\* An accessor of an effective-nonce wrapper: skipAccountChecks is the wrapper's
\* own and panics, the others are those of the embedded payload.
WrapperAccessor(tx, a) ==
    IF a = "skipAccountChecks" THEN Abort ELSE MantleAccessor(Embedded(tx), a)

\* tx.inner.a(), for the accessors the source files define: all of them on a
\* DepositTxMantle and on a wrapper of one, skipAccountChecks on a wrapper of
\* a DepositTx.
AccessorCall ==
    /\ \E a \in Accessors :
          /\ \/ inner.kind \in {"DepositTxMantle", "depositMantleTxWithNonce"}
             \/ inner.kind = "depositTxWithNonce" /\ a = "skipAccountChecks"
          /\ LET res == IF inner.kind \in WrapperKinds THEN WrapperAccessor(inner, a)
                        ELSE MantleAccessor(inner, a)
             IN  ret' = res.ret /\ err' = res.err
    /\ op' = "accessor"
    /\ UNCHANGED <<inner, input, source, wire>>
    /\ UNCHANGED copyVars
    /\ UNCHANGED vmVars

NextPayload ==
    \/ EncodeRLPCall \/ DecodeCall \/ NonceCall \/ EffectiveNonceCall
    \/ CopyPayloadCall \/ AccessorCall

SpecPayload == InitPayload /\ [][NextPayload]_vars

\* The payloads copied: every pattern of nil and set pointer fields.
CopiedMantles ==
    {[kind |-> "DepositTxMantle", SourceHash |-> 1, From |-> 1, To |-> t, Mint |-> m,
      Value |-> 1, Gas |-> 1, IsSystemTransaction |-> TRUE, EthValue |-> e,
      Data |-> d, EthTxValue |-> x] :
        t \in {Nil, Some(1)}, m \in {Nil, Some(1)}, e \in {Nil, Some(1)},
        x \in {Nil, Some(1)}, d \in {<<>>, <<1>>}}
CopiedZetas ==
    {[kind |-> "ZetaCosmosEVMTx", TxHash |-> h, BlockHash |-> h, Nonce |-> 1,
      To |-> t, Gas |-> 1, GasPrice |-> 1, Value |-> 1, Data |-> d,
      V |-> 27, R |-> 1, S |-> 1] :
        h \in {0, 1}, t \in {Nil, Some(1)}, d \in {<<>>, <<1>>}}
CopiedPayloads == CopiedMantles \cup CopiedZetas

InitCopy ==
    /\ \E v \in CopiedPayloads :
          LET r == Place(<<>>, v, PointerFields(v.kind))
          IN  inner = r.tx /\ heap = r.heap
    /\ cpy = NoTx /\ writes = 0
    /\ VMIdle
    /\ input = Malformed /\ err = NoErr /\ op = "init"
    /\ source = NoTx /\ wire = NoWire /\ ret = Nil

\* cpy := tx.inner.copy()
CopyCall ==
    /\ cpy = NoTx
    /\ LET r == copy(heap, inner)
       IN  cpy' = r.tx /\ heap' = r.heap
    /\ op' = "copy"
    /\ UNCHANGED <<inner, writes>>
    /\ UNCHANGED codecVars
    /\ UNCHANGED vmVars

\* A write through a pointer or slice field of the payload p.
WriteThrough(p) ==
    /\ writes < MaxWrites
    /\ \E f \in PointerFieldSet(p.kind) :
          /\ p[f] # 0
          /\ heap' = [heap EXCEPT ![p[f]] = @ + 1]
    /\ writes' = writes + 1

\* cpy.F.Add(cpy.F, 1), *cpy.To = ..., cpy.Data[0] = ...
WriteThroughCopy ==
    /\ cpy # NoTx
    /\ WriteThrough(cpy)
    /\ op' = "write copy"
    /\ UNCHANGED <<inner, cpy>>
    /\ UNCHANGED codecVars
    /\ UNCHANGED vmVars

\* The same writes through the original.
WriteThroughOriginal ==
    /\ cpy # NoTx
    /\ WriteThrough(inner)
    /\ op' = "write original"
    /\ UNCHANGED <<inner, cpy>>
    /\ UNCHANGED codecVars
    /\ UNCHANGED vmVars

NextCopy == CopyCall \/ WriteThroughCopy \/ WriteThroughOriginal

SpecCopy == InitCopy /\ [][NextCopy]_vars

-----------------------------------------------------------------------------
(* The stateful precompiled contracts and the simulated call of core/vm.   *)
(* What the code obtains from outside the source files (the contract's     *)
(* RequiredGas and RunStateful, the precompile table, the state's Exist    *)
(* and GetCode, the interpreter) is an outcome chosen by the environment.  *)

\* Arithmetic of the unsigned integers holding gas.
UintMod == 2 ^ UintBits
Sub(a, b) == (a - b) % UintMod
Add(a, b) == (a + b) % UintMod

ErrOutOfGas == [kind |-> "out of gas", field |-> ""]
ErrDepth == [kind |-> "max call depth exceeded", field |-> ""]
ErrInsufficientBalance ==
    [kind |-> "insufficient balance for transfer", field |-> ""]
ErrExecutionReverted == [kind |-> "execution reverted", field |-> ""]

\* A stateful precompile run without the gas check: the subtraction wraps.
RunStatefulUnchecked(suppliedGas, gasCost, out) ==
    [ret |-> out.ret, remainingGas |-> Sub(suppliedGas, gasCost), err |-> out.err,
     ran |-> 1]

\* RunStatefulPrecompiledContract: gasCost is p.RequiredGas(input), out what
\* p.RunStateful returns; ran counts the invocations of RunStateful.
RunStatefulPrecompiledContract(suppliedGas, gasCost, out) ==
    IF suppliedGas < gasCost
    THEN [ret |-> Nil, remainingGas |-> 0, err |-> ErrOutOfGas, ran |-> 0]
    ELSE [ret |-> out.ret, remainingGas |-> Sub(suppliedGas, gasCost),
          err |-> out.err, ran |-> 1]

\* PreRunStatefulPrecompiledContract: the call of RunStateful is commented out,
\* and err is the named result, never assigned on this path.
PreRunStatefulPrecompiledContract(suppliedGas, gasCost, out) ==
    IF suppliedGas < gasCost
    THEN [ret |-> Nil, remainingGas |-> 0, err |-> ErrOutOfGas, ran |-> 0]
    ELSE [ret |-> Nil, remainingGas |-> Sub(suppliedGas, gasCost), err |-> NoErr,
          ran |-> 0]

\* What p.RunStateful may return.
RunOutcomes ==
    {[ret |-> Some(<<1>>), err |-> NoErr], [ret |-> Nil, err |-> ErrExecutionReverted]}

\* core.CanTransfer and core.Transfer, the functions evm.Context holds.
CanTransfer(b, from, value) == b[from] >= value
Transfer(b, from, toAddr, value) ==
    [a \in Addresses |->
        b[a] - (IF a = from THEN value ELSE 0) + (IF a = toAddr THEN value ELSE 0)]

\* The AssetChange of a native transfer.
NativeChange(b, from, toAddr, value) ==
    [ActionType |-> "native", Sender |-> from, Receiver |-> toAddr,
     AssetAmount |-> value, SenderBalance |-> b[from]]

\* A SimulateNativeAsset that would record the transfer without crediting the
\* sender.
SimulateNativeAssetWithoutCredit(r, b, from, toAddr, value) ==
    IF value = 0 THEN [resp |-> r, balances |-> b]
    ELSE [resp |-> [r EXCEPT !.AssetChanges =
                                Append(@, NativeChange(b, from, toAddr, value)),
                             !.SuccessWithoutPrePay = IF b[from] < value THEN FALSE ELSE @],
          balances |-> b]

\* SimulateNativeAsset on the response r and the balances b.
SimulateNativeAsset(r, b, from, toAddr, value) ==
    IF value = 0 THEN [resp |-> r, balances |-> b]
    ELSE IF b[from] < value
    THEN [resp |-> [r EXCEPT !.SuccessWithoutPrePay = FALSE,
                             !.AssetChanges =
                                Append(@, NativeChange(b, from, toAddr, value))],
          balances |-> [b EXCEPT ![from] = @ + value]]
    ELSE [resp |-> [r EXCEPT !.AssetChanges =
                                Append(@, NativeChange(b, from, toAddr, value))],
          balances |-> b]

\* simulateAction: a transferFrom or transfer call data is recorded as an
\* AssetChange, with SuccessWithoutPrePay cleared when the token balance is
\* short; then the interpreter runs, leaving env.left gas in the contract, and
\* whatever it returns the error returned is nil.
simulateAction(r, env) ==
    LET recorded ==
            IF env.selector \in {"transferFrom", "transfer"}
            THEN [r EXCEPT !.AssetChanges = Append(@, [ActionType |-> env.selector]),
                           !.SuccessWithoutPrePay = IF env.short THEN FALSE ELSE @]
            ELSE r
    IN  [resp |-> recorded, gas |-> env.left, err |-> NoErr]

\* The tail of simulateCall, lines 149-161: after the execution has returned
\* gas and e, with the balances as they were at the snapshot and as they are.
AfterExecution(r, snapshot, b, initGas, gas, e) ==
    LET charged == e # NoErr /\ e # ErrExecutionReverted
        r1 == IF charged THEN [r EXCEPT !.GasCost = Add(@, Sub(initGas, gas))] ELSE r
        gas1 == IF charged THEN 0 ELSE gas
        r2 == [r1 EXCEPT !.SuccessWithPrePay = TRUE]
        r3 == IF gas1 # 0 THEN [r2 EXCEPT !.GasCost = Add(@, Sub(initGas, gas1))]
              ELSE r2
    IN  [resp |-> r3, balances |-> IF e # NoErr THEN snapshot ELSE b,
         gas |-> gas1, err |-> e, executed |-> TRUE, execGas |-> gas, execErr |-> e]

\* A return of simulateCall before anything is executed.
EarlyReturn(r, b, gas, e) ==
    [resp |-> r, balances |-> b, gas |-> gas, err |-> e, executed |-> FALSE,
     execGas |-> gas, execErr |-> NoErr]

\* simulateCall(caller, addr, input, gas, value) on the response r and the
\* balances b, in the environment env.
simulateCall(r, b, caller, addr, gas, value, env) ==
    LET na == IF value # 0 THEN SimulateNativeAsset(r, b, caller, addr, value)
              ELSE [resp |-> r, balances |-> b]
        moved == Transfer(na.balances, caller, addr, value)
        exec == IF env.isPrecompile
                THEN [resp |-> na.resp, gas |-> env.left, err |-> env.err]
                ELSE IF ~env.hasCode
                THEN [resp |-> na.resp, gas |-> gas, err |-> NoErr]
                ELSE simulateAction(na.resp, env)
    IN  IF env.tooDeep THEN EarlyReturn(r, b, gas, ErrDepth)
        ELSE IF value # 0 /\ ~CanTransfer(na.balances, caller, value)
        THEN EarlyReturn(na.resp, na.balances, gas, ErrInsufficientBalance)
        ELSE IF ~env.exists /\ ~env.isPrecompile /\ env.isEIP158 /\ value = 0
        THEN EarlyReturn(na.resp, na.balances, gas, NoErr)
        ELSE AfterExecution(exec.resp, na.balances, moved, gas, exec.gas, exec.err)

\* The environments of a call with `gas`.  A field the call does not look at
\* has its default value: nothing else is read once the depth is exceeded, a
\* precompile leaves at most the gas it was given and none when it runs out
\* of gas, an account with code exists, and the interpreter leaves at most
\* the gas of the contract.
DefaultEnv ==
    [tooDeep |-> FALSE, exists |-> TRUE, isPrecompile |-> FALSE, isEIP158 |-> FALSE,
     hasCode |-> FALSE, left |-> 0, err |-> NoErr, selector |-> "other",
     short |-> FALSE]
Environments(gas) ==
    {[DefaultEnv EXCEPT !.tooDeep = TRUE]}
    \cup {[DefaultEnv EXCEPT !.isPrecompile = TRUE, !.left = l, !.err = e] :
            l \in 0 .. gas, e \in {NoErr, ErrExecutionReverted}}
    \cup {[DefaultEnv EXCEPT !.isPrecompile = TRUE, !.err = ErrOutOfGas]}
    \cup {[DefaultEnv EXCEPT !.hasCode = TRUE, !.left = l, !.selector = sel,
                             !.short = sh] :
            l \in 0 .. gas, sel \in {"other", "transfer", "transferFrom"},
            sh \in BOOLEAN}
    \cup {[DefaultEnv EXCEPT !.exists = ex, !.isEIP158 = eip] :
            ex \in BOOLEAN, eip \in BOOLEAN}

\* The states of the EVM a call starts from: any gas spent so far, either value
\* of the two flags, any balances.
InitVM ==
    /\ \E g \in 0 .. MaxGas, pre \in BOOLEAN, without \in BOOLEAN :
          resp = [AssetChanges |-> <<>>, GasCost |-> g, SuccessWithPrePay |-> pre,
                  SuccessWithoutPrePay |-> without]
    /\ balances \in [Addresses -> 0 .. MaxValue]
    /\ call = NoCall
    /\ inner = NoTx /\ input = Malformed /\ err = NoErr /\ op = "init"
    /\ source = NoTx /\ wire = NoWire /\ ret = Nil
    /\ heap = <<>> /\ cpy = NoTx /\ writes = 0

\* evm.RunStatefulPrecompiledContract(ctx, p, caller, input, suppliedGas, value)
RunStatefulCall ==
    /\ call = NoCall
    /\ \E suppliedGas \in 0 .. MaxGas, gasCost \in 0 .. MaxGas, out \in RunOutcomes :
          call' = [fn |-> "RunStatefulPrecompiledContract",
                   suppliedGas |-> suppliedGas, gasCost |-> gasCost, out |-> out,
                   result |-> RunStatefulPrecompiledContract(suppliedGas, gasCost, out)]
    /\ op' = "RunStatefulPrecompiledContract"
    /\ UNCHANGED <<resp, balances>>
    /\ UNCHANGED txVars

\* evm.PreRunStatefulPrecompiledContract(ctx, p, caller, input, suppliedGas, value)
PreRunStatefulCall ==
    /\ call = NoCall
    /\ \E suppliedGas \in 0 .. MaxGas, gasCost \in 0 .. MaxGas, out \in RunOutcomes :
          call' = [fn |-> "PreRunStatefulPrecompiledContract",
                   suppliedGas |-> suppliedGas, gasCost |-> gasCost, out |-> out,
                   result |-> PreRunStatefulPrecompiledContract(suppliedGas, gasCost, out)]
    /\ op' = "PreRunStatefulPrecompiledContract"
    /\ UNCHANGED <<resp, balances>>
    /\ UNCHANGED txVars

\* evm.simulateCall(caller, addr, input, gas, value)
SimulateCallCall ==
    /\ call = NoCall
    /\ \E caller \in Addresses, addr \in Addresses, gas \in 0 .. MaxGas,
          value \in 0 .. MaxValue :
          \E env \in Environments(gas) :
             LET res == simulateCall(resp, balances, caller, addr, gas, value, env)
             IN  /\ resp' = res.resp
                 /\ balances' = res.balances
                 /\ call' = [fn |-> "simulateCall", caller |-> caller, addr |-> addr,
                             gas |-> gas, value |-> value,
                             respBefore |-> resp, balancesBefore |-> balances,
                             result |-> [gas |-> res.gas, err |-> res.err,
                                         executed |-> res.executed,
                                         execGas |-> res.execGas,
                                         execErr |-> res.execErr]]
    /\ op' = "simulateCall"
    /\ UNCHANGED txVars

\* evm.SimulateNativeAsset(from, to, value)
SimulateNativeAssetCall ==
    /\ call = NoCall
    /\ \E from \in Addresses, toAddr \in Addresses, value \in 0 .. MaxValue :
          LET res == SimulateNativeAsset(resp, balances, from, toAddr, value)
          IN  /\ resp' = res.resp
              /\ balances' = res.balances
              /\ call' = [fn |-> "SimulateNativeAsset", from |-> from, to |-> toAddr,
                          value |-> value, respBefore |-> resp,
                          balancesBefore |-> balances]
    /\ op' = "SimulateNativeAsset"
    /\ UNCHANGED txVars

NextVM ==
    \/ RunStatefulCall \/ PreRunStatefulCall
    \/ SimulateCallCall \/ SimulateNativeAssetCall

SpecVM == InitVM /\ [][NextVM]_vars

-----------------------------------------------------------------------------
(* Properties of the effective-nonce wrappers and of the binary codec,     *)
(* stated on SpecPayload.                                                  *)

IsWrapper(tx) == tx.kind \in WrapperKinds

\* C1: the canonical encoding and the hash of a wrapper are those of the deposit
\* payload it wraps, whatever its effective nonce: two wrappers of the same
\* payload with different nonces encode and hash identically.
C1_HashStableUnderNonceWrapping ==
    (op = "EncodeRLP" /\ IsWrapper(source)) =>
        /\ wire = EncodeRLP(Embedded(source))
        /\ ret = Some(Hash(Embedded(source)))
        /\ \A n \in 0 .. MaxNonce :
              LET other == [source EXCEPT !.EffectiveNonce = n]
              IN  EncodeRLP(other) = wire /\ Some(Hash(other)) = ret

\* A wrapper of each kind with a non-zero effective nonce has been encoded.
C1_Witness ==
    /\ op = "EncodeRLP"
    /\ source.kind = "depositTxWithNonce"
    /\ source.EffectiveNonce = MaxNonce
    /\ source.DepositTx.Mint # Nil

\* C2 as stated: nonce() called on a wrapper returns the EffectiveNonce override.
C2_NonceReturnsOverride ==
    (op = "nonce" /\ IsWrapper(inner)) => ret = Some(inner.EffectiveNonce)

\* C2 as the code has it: nonce() called on a wrapper returns the nonce of the
\* wrapped deposit payload (0 for a DepositTxMantle), whatever the override is;
\* the override is what effectiveNonce() returns.
C2_NonceReturnsPayloadNonce ==
    /\ (op = "nonce" /\ inner.kind = "depositMantleTxWithNonce") => ret = Some(0)
    /\ (op = "nonce" /\ inner.kind = "depositTxWithNonce") =>
            ret = Some(DepositTxNonce(inner.DepositTx))
    /\ (op = "effectiveNonce" /\ IsWrapper(inner)) => ret = Some(inner.EffectiveNonce)

\* nonce() has been called on a Mantle wrapper whose override is not zero.
C2_Witness ==
    /\ op = "nonce"
    /\ inner.kind = "depositMantleTxWithNonce"
    /\ inner.EffectiveNonce = MaxNonce

\* C4 as stated: decode(encode(x)) succeeds and reproduces every DepositTxMantle x
\* field for field, nil and zero kept distinct.
C4_MantleRLPRoundTrip ==
    (op = "decode" /\ source.kind = "DepositTxMantle") =>
        (err = NoErr /\ inner = source)

-----------------------------------------------------------------------------
(* Properties of the JSON codec, stated on Spec.                           *)

\* The text at hand is an object, and its type tag.
IsObject == ~input.malformed
HasKey(k) == IsJVal(input.obj[k])
TypeTag == IF HasKey("type") THEN input.obj["type"][1] ELSE 0
Decoded == op = "UnmarshalJSON" /\ IsObject

\* C3 as stated: UnmarshalJSON(MarshalJSON(tx)) succeeds and yields the payload
\* tx, for every payload the codec can decode.
C3_JSONRoundTrip ==
    (op = "UnmarshalJSON" /\ source # NoTx) => (err = NoErr /\ inner = source)

\* The required keys of the four standard types, as sets.
StandardRequired(t) ==
    LET legacy == {"nonce", "gas", "gasPrice", "value", "input", "v", "r", "s"}
        dynamic == {"chainId", "nonce", "gas", "maxPriorityFeePerGas", "maxFeePerGas",
                    "value", "input", "v", "r", "s"}
    IN  CASE t = LegacyTxType -> legacy
          [] t = AccessListTxType -> legacy \cup {"chainId"}
          [] t = DynamicFeeTxType -> dynamic
          [] t = BlobTxType -> dynamic \cup {"maxFeePerBlobGas", "blobVersionedHashes"}

StandardTypes == {LegacyTxType, AccessListTxType, DynamicFeeTxType, BlobTxType}

\* The signature of the object at hand passes the sanity check of its type.
SignatureAccepted ==
    CheckSignature(input.obj["v"][1], input.obj["r"][1], input.obj["s"][1],
                   TypeTag = LegacyTxType) = NoErr

\* C5: an object of a standard type that lacks exactly one of its required keys
\* is refused with the missing-field error naming that key, and an object with
\* every required key and an accepted signature decodes, with or without "to"
\* and "accessList".
C5_RequiredFieldNamed ==
    (Decoded /\ TypeTag \in StandardTypes) =>
        LET missing == {k \in StandardRequired(TypeTag) : ~HasKey(k)}
        IN  /\ \A f \in missing : missing = {f} => err = ErrMissing(f)
            /\ (missing = {} /\ SignatureAccepted) =>
                  /\ err = NoErr
                  /\ inner.To = (IF HasKey("to") THEN Some(input.obj["to"][1]) ELSE Nil)

\* A blob object without blobVersionedHashes has been refused.
C5_Witness ==
    /\ Decoded
    /\ TypeTag = BlobTxType
    /\ {k \in StandardRequired(BlobTxType) : ~HasKey(k)} = {"blobVersionedHashes"}
    /\ err = ErrMissing("blobVersionedHashes")

\* The object at hand is of the deposit type.
IsDeposit == Decoded /\ TypeTag = DepositTxType

\* Every key that must be absent or zero is absent, null or zero.
FixedZeroRespected ==
    \A k \in FixedZeroKeys : HasKey(k) => input.obj[k][1] = 0
NoForbiddenKey == \A k \in ForbiddenKeys : ~HasKey(k)

\* C6 as stated: a deposit-type object that lacks one of sourceHash, from, gas,
\* value and input is refused with a missing-field error, whichever sub-variant
\* its keys select.
C6_DepositRequiredFields ==
    (IsDeposit /\ NoForbiddenKey /\ FixedZeroRespected) =>
        \A f \in {"sourceHash", "from", "gas", "value", "input"} :
            ~HasKey(f) => err.kind = "missing required field"

\* The object at hand with gasPrice, v, r and s taken out.
WithoutFixedZero == Text(Edit(input.obj, [k \in FixedZeroKeys |-> JAbsent]))

\* C7: a deposit-type object with a non-zero gasPrice, v, r or s is refused; and
\* an object that decodes without those four keys decodes to the same payload
\* with each of them absent or zero, in any combination.
C7_FixedZeroFields ==
    IsDeposit =>
        /\ ~FixedZeroRespected =>
              /\ err # NoErr
              /\ NoForbiddenKey => err \in {ErrGasPriceNotZero, ErrSignatureNotZero}
        /\ (FixedZeroRespected /\ DecodeJSON(WithoutFixedZero).err = NoErr) =>
              (err = NoErr /\ inner = DecodeJSON(WithoutFixedZero).inner)

\* A deposit object with gasPrice zero, v absent, r zero and s absent has decoded.
C7_Witness ==
    /\ IsDeposit
    /\ input.obj["gasPrice"] = JVal(0) /\ input.obj["v"] = JAbsent
    /\ input.obj["r"] = JVal(0) /\ input.obj["s"] = JAbsent
    /\ err = NoErr
    /\ inner.kind = "depositMantleTxWithNonce"

\* C8: a deposit-type object with accessList, maxFeePerGas or maxPriorityFeePerGas
\* present, even empty or zero, is refused with the unexpected-fields error,
\* whatever sub-variant its keys select and whatever else it lacks or carries.
C8_ForbiddenFieldsFirst ==
    (IsDeposit /\ ~NoForbiddenKey) => err = ErrUnexpectedFields

\* A Mantle object with a zero maxFeePerGas and without gas has been refused for
\* the former.
C8_Witness ==
    /\ IsDeposit
    /\ input.obj["maxFeePerGas"] = JVal(0)
    /\ HasKey("ethValue") /\ ~HasKey("gas")
    /\ err = ErrUnexpectedFields

\* The type tags UnmarshalJSON has a case for.
HandledTypes == {0, 1, 2, 3, 88, 100, 101, 102, 104, 105, 106, 120, 126}

\* C9: UnmarshalJSON of an object whose type tag has no case returns the
\* unsupported-type error and leaves the receiver's payload as it was.
C9_UnknownTypeLeavesReceiver ==
    [][(op' = "UnmarshalJSON" /\ ~input'.malformed
          /\ input'.obj["type"][1] \notin HandledTypes)
       => (err' = ErrTxTypeNotSupported /\ inner' = inner)]_vars

\* An object of type 0xFF has been refused and the receiver still holds its payload.
C9_Witness ==
    /\ Decoded
    /\ TypeTag = 255
    /\ err = ErrTxTypeNotSupported
    /\ inner = SomeLegacyTx

\* C10: UnmarshalJSON leaves the receiver unchanged on every error, and on
\* success the receiver holds a payload of the type the text names.
C10_DecodeAllOrNothing ==
    [][op' = "UnmarshalJSON"
       => IF err' = NoErr
          THEN inner' # NoTx /\ txType(inner') = input'.obj["type"][1]
          ELSE inner' = inner]_vars

\* An object has been refused for a missing field and the receiver still holds
\* the payload it had.
C10_Witness ==
    /\ Decoded
    /\ err.kind = "missing required field"
    /\ inner = SomeLegacyTx

\* The signature triple of a decoded payload of a signed variant.
SignatureOf(tx) ==
    IF tx.kind = "ArbitrumLegacyTxData"
    THEN <<tx.LegacyTx.V, tx.LegacyTx.R, tx.LegacyTx.S>>
    ELSE <<tx.V, tx.R, tx.S>>

LegacyStyleTypes == {LegacyTxType, ArbitrumLegacyTxType}
SignedTypes == StandardTypes \cup {ArbitrumLegacyTxType}

VariantOf(tx) == IF IsWrapper(tx) THEN Embedded(tx).kind ELSE tx.kind

\* A payload of each shape, decoded from its well-formed object.
Exemplar(shape) ==
    LET sig == [v |-> IF shape \in {"legacy", "zeta", "arbLegacy"} THEN 27 ELSE 0,
                r |-> 1, s |-> 1]
        obj == IF shape \in SignedShapes THEN Obj(Template(shape, 1) @@ sig)
               ELSE Obj(Template(shape, 1))
    IN  DecodeJSON(Text(obj))

\* C15 as stated: no two distinct variants report the same txType() or are
\* decoded under the same type tag.
C15_DiscriminantUnique ==
    (Decoded /\ err = NoErr) =>
        \A shape \in Shapes :
            LET other == Exemplar(shape)
            IN  (other.err = NoErr /\ txType(other.inner) = txType(inner)) =>
                    VariantOf(other.inner) = VariantOf(inner)

\* The keys common to every variant, the keys each variant always carries, and
\* the keys each variant may carry.
CommonKeys == {"type", "hash", "blockHash"}
MeaningfulKeys(kind) ==
    CASE kind \in {"LegacyTx", "ZetaCosmosEVMTx"} ->
            {"nonce", "gas", "gasPrice", "value", "input", "v", "r", "s"}
      [] kind = "AccessListTx" ->
            {"chainId", "nonce", "gas", "gasPrice", "value", "input", "accessList",
             "v", "r", "s"}
      [] kind = "DynamicFeeTx" ->
            {"chainId", "nonce", "gas", "maxFeePerGas", "maxPriorityFeePerGas",
             "value", "input", "accessList", "v", "r", "s"}
      [] kind = "BlobTx" ->
            {"chainId", "nonce", "gas", "maxFeePerGas", "maxPriorityFeePerGas",
             "value", "input", "accessList", "v", "r", "s"}
      [] kind \in {"DepositTx", "DepositTxMantle"} ->
            {"sourceHash", "from", "gas", "value", "input"}
      [] kind = "L1MessageTx" -> {"sender", "queueIndex", "gas", "value", "input"}
      [] kind = "ArbitrumLegacyTxData" ->
            {"nonce", "gas", "gasPrice", "value", "input", "v", "r", "s",
             "effectiveGasPrice", "l1BlockNumber"}
      [] kind = "ArbitrumInternalTx" -> {"chainId", "input"}
      [] kind = "ArbitrumDepositTx" -> {"chainId", "requestId", "to", "from", "value"}
      [] kind = "ArbitrumUnsignedTx" ->
            {"chainId", "from", "nonce", "maxFeePerGas", "gas", "value", "input"}
      [] kind = "ArbitrumContractTx" ->
            {"chainId", "requestId", "from", "maxFeePerGas", "gas", "value", "input"}
      [] kind = "ArbitrumRetryTx" ->
            {"chainId", "nonce", "from", "maxFeePerGas", "gas", "value", "input",
             "ticketId", "refundTo", "maxRefund", "submissionFeeRefund"}
      [] kind = "ArbitrumSubmitRetryableTx" ->
            {"chainId", "requestId", "from", "l1BaseFee", "depositValue",
             "maxFeePerGas", "gas", "beneficiary", "maxSubmissionFee", "refundTo",
             "retryValue", "retryData"}
OptionalKeys(kind) ==
    CASE kind = "BlobTx" ->
            {"to", "maxFeePerBlobGas", "maxFeePerDataGas", "blobVersionedHashes"}
      [] kind = "DepositTx" -> {"to", "mint", "isSystemTx", "nonce"}
      [] kind = "DepositTxMantle" ->
            {"to", "mint", "isSystemTx", "nonce", "ethValue", "ethTxValue"}
      [] kind = "ArbitrumLegacyTxData" -> {"to", "from"}
      [] kind = "ArbitrumInternalTx" -> {}
      [] kind = "ArbitrumSubmitRetryableTx" -> {"retryTo"}
      [] OTHER -> {"to"}

\* C16 as stated: MarshalJSON sets type and hash, every key meaningful to the
\* variant of the payload, and no key that belongs only to other variants.
C16_MarshalPopulatesVariant ==
    op = "MarshalJSON" =>
        LET kind == VariantOf(source)
        IN  /\ HasKey("type") /\ HasKey("hash")
            /\ \A k \in MeaningfulKeys(kind) : HasKey(k)
            /\ \A k \in Keys \ (CommonKeys \cup MeaningfulKeys(kind)
                                  \cup OptionalKeys(kind)) : ~HasKey(k)

\* C17: a dynamic-fee object with chainId, nonce, to, gas, maxFeePerGas,
\* maxPriorityFeePerGas, value, input, an empty accessList and the signature
\* v = 0, r = 1, s = 1 decodes, and each field of the payload is the value of
\* its key.
C17_DynamicFeeDecodes ==
    (/\ Decoded /\ TypeTag = DynamicFeeTxType
     /\ \A k \in {"chainId", "nonce", "to", "gas", "maxFeePerGas",
                  "maxPriorityFeePerGas", "value", "input", "accessList",
                  "v", "r", "s"} : HasKey(k)
     /\ input.obj["accessList"][1] = <<>>
     /\ input.obj["v"][1] = 0 /\ input.obj["r"][1] = 1 /\ input.obj["s"][1] = 1) =>
        /\ err = NoErr
        /\ inner.kind = "DynamicFeeTx"
        /\ inner.ChainID = input.obj["chainId"][1]
        /\ inner.Nonce = input.obj["nonce"][1]
        /\ inner.To = Some(input.obj["to"][1])
        /\ inner.Gas = input.obj["gas"][1]
        /\ inner.GasFeeCap = input.obj["maxFeePerGas"][1]
        /\ inner.GasTipCap = input.obj["maxPriorityFeePerGas"][1]
        /\ inner.Value = input.obj["value"][1]
        /\ inner.Data = input.obj["input"][1]
        /\ inner.AccessList = <<>>
        /\ inner.V = 0 /\ inner.R = 1 /\ inner.S = 1

\* The object with chain id 1, nonce 5, gas 21000 and both fee caps 1000000000
\* has been decoded.
C17_Witness ==
    /\ Decoded /\ err = NoErr /\ inner.kind = "DynamicFeeTx"
    /\ inner.ChainID = 1 /\ inner.Nonce = 5 /\ inner.Gas = 21000
    /\ inner.GasFeeCap = 1000000000 /\ inner.GasTipCap = 1000000000
    /\ inner.Value = 0 /\ inner.Data = <<>>
    /\ inner.V = 0 /\ inner.R = 1 /\ inner.S = 1

C18_WitnessEthTxValueAlone ==
    /\ IsDeposit /\ err = NoErr
    /\ HasKey("mint") /\ HasKey("ethTxValue") /\ ~HasKey("ethValue")
    /\ VariantOf(inner) = "DepositTx"

\* The decoded payload is a wrapper carrying the value of "nonce" when the key
\* is present, and an unwrapped payload when it is absent.
WrappedIffNonce ==
    IF HasKey("nonce")
    THEN IsWrapper(inner) /\ inner.EffectiveNonce = input.obj["nonce"][1]
    ELSE ~IsWrapper(inner)

\* C19 as stated: whichever sub-variant a deposit-type object selects, the
\* decoded payload is wrapped exactly when "nonce" is present.
C19_NonceWrapsEverySubVariant ==
    (IsDeposit /\ err = NoErr) => WrappedIffNonce

\* C19: a deposit-type object that selects the base deposit or the Mantle
\* deposit decodes to a wrapper carrying the value of "nonce" when the key is
\* present and to the unwrapped payload when it is absent; an object that
\* selects the L1 message decodes to the unwrapped L1 message either way.
C19_NonceWrapsDeposits ==
    (IsDeposit /\ err = NoErr) =>
        IF VariantOf(inner) = "L1MessageTx" THEN inner.kind = "L1MessageTx"
        ELSE WrappedIffNonce

\* A Mantle deposit object with nonce 1 has been decoded to a wrapper with
\* effective nonce 1.
C19_Witness ==
    /\ IsDeposit /\ err = NoErr /\ HasKey("nonce")
    /\ inner.kind = "depositMantleTxWithNonce" /\ inner.EffectiveNonce = 1

\* An L1 message object with a nonce has been decoded.
C19_WitnessL1Message ==
    /\ IsDeposit /\ err = NoErr /\ HasKey("nonce") /\ inner.kind = "L1MessageTx"

\* The keys each Arbitrum type requires, and the keys that belong to tickets,
\* refunds, beneficiaries and submission fees.
ArbitrumTypes ==
    {ArbitrumInternalTxType, ArbitrumDepositTxType, ArbitrumUnsignedTxType,
     ArbitrumContractTxType, ArbitrumRetryTxType, ArbitrumSubmitRetryableTxType}
ArbitrumRequired(t) ==
    CASE t = ArbitrumRetryTxType ->
            {"ticketId", "refundTo", "maxRefund", "submissionFeeRefund",
             "chainId", "nonce", "from", "maxFeePerGas", "gas", "value", "input"}
      [] t = ArbitrumSubmitRetryableTxType ->
            {"requestId", "from", "l1BaseFee", "depositValue", "maxFeePerGas",
             "gas", "beneficiary", "maxSubmissionFee", "refundTo", "retryValue",
             "retryData", "chainId"}
      [] t = ArbitrumDepositTxType -> {"chainId", "requestId", "to", "from", "value"}
      [] t = ArbitrumUnsignedTxType ->
            {"chainId", "from", "nonce", "maxFeePerGas", "gas", "value", "input"}
      [] t = ArbitrumContractTxType ->
            {"chainId", "requestId", "from", "maxFeePerGas", "gas", "value", "input"}
      [] t = ArbitrumInternalTxType -> {"chainId", "input"}
TicketKeys ==
    {"ticketId", "refundTo", "maxRefund", "submissionFeeRefund", "beneficiary",
     "maxSubmissionFee", "l1BaseFee"}

\* C20: an object of an Arbitrum type that lacks exactly one of the keys the
\* type requires is refused with the missing-field error naming that key, and
\* an object with every required key decodes, with or without "to" and
\* "retryTo" (the Arbitrum deposit requires "to"), and for the unsigned,
\* contract and internal types without any ticket, refund, beneficiary or
\* submission-fee key.
C20_ArbitrumRequiredFields ==
    (Decoded /\ TypeTag \in ArbitrumTypes) =>
        LET missing == {k \in ArbitrumRequired(TypeTag) : ~HasKey(k)}
        IN  /\ \A f \in missing : missing = {f} => err = ErrMissing(f)
            /\ missing = {} => err = NoErr

\* A retry object without "ticketId" has been refused.
C20_Witness ==
    /\ Decoded /\ TypeTag = ArbitrumRetryTxType
    /\ {k \in ArbitrumRequired(TypeTag) : ~HasKey(k)} = {"ticketId"}
    /\ err = ErrMissing("ticketId")

\* An unsigned, a contract or an internal object with no ticket, refund,
\* beneficiary or submission-fee key has been decoded.
C20_WitnessNoTicketKeys ==
    /\ Decoded /\ err = NoErr
    /\ TypeTag \in {ArbitrumUnsignedTxType, ArbitrumContractTxType,
                    ArbitrumInternalTxType}
    /\ \A k \in TicketKeys : ~HasKey(k)

\* A retry object without "to" has been decoded.
C20_WitnessWithoutTo ==
    /\ Decoded /\ TypeTag = ArbitrumRetryTxType /\ ~HasKey("to") /\ err = NoErr
    /\ inner.kind = "ArbitrumRetryTx" /\ inner.To = Nil

\* A submit-retryable object without "retryTo" has been decoded, and an
\* Arbitrum deposit object without "to" has been refused.
C20_WitnessRetryTo ==
    \/ /\ Decoded /\ TypeTag = ArbitrumSubmitRetryableTxType /\ ~HasKey("retryTo")
       /\ err = NoErr /\ inner.RetryTo = Nil
    \/ /\ Decoded /\ TypeTag = ArbitrumDepositTxType /\ ~HasKey("to")
       /\ err = ErrMissing("to")

\* The object decoded, with its type tag replaced by t.
Retagged(t) == Text(Edit(input.obj, [k \in {"type"} |-> JVal(t)]))

\* C21 as stated: the error returned for an unknown type tag carries the tag, so
\* the same object under another unknown tag is refused with a different error.
C21_UnsupportedTypeCarriesTag ==
    (Decoded /\ HasKey("type") /\ TypeTag \notin HandledTypes) =>
        \A t \in UnknownTxTypes \ {TypeTag} : DecodeJSON(Retagged(t)).err # err

\* The value of key k in the object decoded, or d when the key is absent or null.
ValueOr(k, d) == IF HasKey(k) THEN input.obj[k][1] ELSE d

C22_WitnessOptional ==
    \/ /\ Decoded /\ TypeTag = ArbitrumLegacyTxType /\ err = NoErr
       /\ ~HasKey("from") /\ inner.Sender = Nil
    \/ /\ Decoded /\ TypeTag = ArbitrumLegacyTxType /\ ~HasKey("l1BlockNumber")
       /\ err = ErrMissing("L1BlockNumber")

\* C25 as stated: the object MarshalJSON writes for a BlobTx holds the blob fee
\* cap under "maxFeePerBlobGas", and UnmarshalJSON of that object does not
\* fail with a missing-field error and yields the same BlobFeeCap.
C25_BlobFeeCapRoundTrip ==
    /\ (op = "MarshalJSON" /\ source.kind = "BlobTx") =>
          /\ HasKey("maxFeePerBlobGas")
          /\ input.obj["maxFeePerBlobGas"][1] = source.BlobFeeCap
    /\ (op = "UnmarshalJSON" /\ source.kind = "BlobTx") =>
          /\ err.kind # "missing required field"
          /\ err = NoErr => inner.BlobFeeCap = source.BlobFeeCap

\* The object decoded with its signature keys replaced: by the values of sig,
\* or removed when sig is the empty function.
Resigned(sig) ==
    Text(Edit(input.obj,
              [k \in {"v", "r", "s"} |-> IF k \in DOMAIN sig THEN JVal(sig[k])
                                         ELSE JAbsent]))

\* C26: a Zeta object with nonce, gas, gasPrice, value and input decodes
\* whatever v, r and s it holds or lacks, is never refused for its signature,
\* yields a payload whose V, R and S are 0, and yields the same result as the
\* same object with any other v, r and s or with none.
C26_ZetaSignatureIgnored ==
    (Decoded /\ TypeTag = ZetaCosmosEVMTxType) =>
        LET missing == {k \in {"nonce", "gas", "gasPrice", "value", "input"} :
                            ~HasKey(k)}
        IN  /\ missing = {} => err = NoErr
            /\ err # ErrInvalidSig
            /\ \A k \in {"v", "r", "s"} : err # ErrMissing(k)
            /\ err = NoErr => inner.V = 0 /\ inner.R = 0 /\ inner.S = 0
            /\ \A sig \in Sigs("zeta") \cup {<<>>} :
                  LET other == DecodeJSON(Resigned(sig))
                  IN  other.err = err /\ (err = NoErr => other.inner = inner)

\* A Zeta object with v = 26, r = 0 and s = 1 has been decoded to a payload
\* with the signature (0, 0, 0).
C26_Witness ==
    /\ Decoded /\ TypeTag = ZetaCosmosEVMTxType /\ err = NoErr
    /\ HasKey("v") /\ input.obj["v"][1] = 26
    /\ HasKey("r") /\ input.obj["r"][1] = 0
    /\ HasKey("s") /\ input.obj["s"][1] = 1
    /\ inner.V = 0 /\ inner.R = 0 /\ inner.S = 0

\* A Zeta object without "v" has been decoded.
C26_WitnessWithoutV ==
    /\ Decoded /\ TypeTag = ZetaCosmosEVMTxType /\ err = NoErr /\ ~HasKey("v")

-----------------------------------------------------------------------------
(* Properties of copy(), stated on SpecCopy.                               *)

\* C13: after cpy := x.copy(), a write through a pointer or slice field of the
\* copy changes no field of x, and a write through x changes no field of the copy.
C13_CopyIndependent ==
    [][/\ op' = "write copy" => View(heap', inner') = View(heap, inner)
       /\ op' = "write original" => View(heap', cpy') = View(heap, cpy)]_vars

\* The Data of the copy of a DepositTxMantle has been overwritten and differs
\* from the original's.
C13_Witness ==
    /\ op = "write copy"
    /\ cpy.kind = "DepositTxMantle"
    /\ cpy.Data # 0
    /\ View(heap, cpy).Data # View(heap, inner).Data

\* C14 as stated: the copy carries every field of the original and has the same
\* canonical encoding.
C14_CopyComplete ==
    op = "copy" =>
        /\ View(heap, cpy) = View(heap, inner)
        /\ EncodeRLP(View(heap, cpy)) = EncodeRLP(View(heap, inner))

-----------------------------------------------------------------------------
(* Properties of copy() and of the accessors, stated on SpecPayload.       *)

\* C23 as stated: the payload copy() returns for an effective-nonce wrapper
\* reports the effective nonce of the wrapper.
C23_CopyKeepsEffectiveNonce ==
    (op = "copy" /\ inner.kind \in WrapperKinds) =>
        ret = WrapperEffectiveNonce(inner)

\* C24 as stated: every accessor of every payload returns a value without
\* aborting.
C24_AccessorsReturn ==
    op = "accessor" => err = NoErr /\ ret # Nil

-----------------------------------------------------------------------------
(* Properties of the calls on the EVM, stated on SpecVM.                   *)

StatefulCalls ==
    {"RunStatefulPrecompiledContract", "PreRunStatefulPrecompiledContract"}

C27_WitnessEnoughGas ==
    \/ /\ call.fn = "RunStatefulPrecompiledContract"
       /\ call.suppliedGas = 2 /\ call.gasCost = 2
       /\ call.result.remainingGas = 0 /\ call.result.ran = 1
    \/ /\ call.fn = "PreRunStatefulPrecompiledContract"
       /\ call.suppliedGas = 3 /\ call.gasCost = 1 /\ call.out.err # NoErr
       /\ call.result.remainingGas = 2 /\ call.result.err = NoErr

\* A simulateCall that has reached the execution of the callee.
Executed == call.fn = "simulateCall" /\ call.result.executed

\* C28 as stated: after a simulateCall that reached execution,
\* SuccessWithPrePay is true exactly when the execution returned no error.
C28_PrePayFalseOnError ==
    Executed => (resp.SuccessWithPrePay <=> call.result.execErr = NoErr)

\* C29 as stated: a simulateCall that reached execution has added to GasCost
\* the gas it was given minus the gas the execution left, once, and GasCost
\* has not decreased.
C29_GasCostAddedOnce ==
    Executed =>
        /\ resp.GasCost =
              Add(call.respBefore.GasCost, Sub(call.gas, call.result.execGas))
        /\ resp.GasCost >= call.respBefore.GasCost

\* The AssetChange SimulateNativeAsset records for the call at hand.
RecordedChange ==
    [ActionType |-> "native", Sender |-> call.from, Receiver |-> call.to,
     AssetAmount |-> call.value, SenderBalance |-> call.balancesBefore[call.from]]

\* C30: SimulateNativeAsset with value 0 changes neither the response nor a
\* balance; with another value it appends one AssetChange of type "native"
\* holding the sender's balance before the call, and clears
\* SuccessWithoutPrePay and credits the sender with the value exactly when
\* that balance was below the value; afterwards the sender's balance is at
\* least the value.
C30_NativeAsset ==
    call.fn = "SimulateNativeAsset" =>
        LET before == call.balancesBefore[call.from]
        IN  /\ call.value = 0 =>
                  resp = call.respBefore /\ balances = call.balancesBefore
            /\ call.value # 0 =>
                  /\ resp.AssetChanges =
                        Append(call.respBefore.AssetChanges, RecordedChange)
                  /\ resp.GasCost = call.respBefore.GasCost
                  /\ resp.SuccessWithPrePay = call.respBefore.SuccessWithPrePay
                  /\ IF before < call.value
                     THEN /\ resp.SuccessWithoutPrePay = FALSE
                          /\ balances =
                                [call.balancesBefore EXCEPT ![call.from] = @ + call.value]
                     ELSE /\ resp.SuccessWithoutPrePay =
                                call.respBefore.SuccessWithoutPrePay
                          /\ balances = call.balancesBefore
            /\ balances[call.from] >= call.value

\* A sender with balance 1 has been credited for a transfer of 2.
C30_Witness ==
    /\ call.fn = "SimulateNativeAsset" /\ call.value = 2
    /\ call.balancesBefore[call.from] = 1
    /\ call.respBefore.SuccessWithoutPrePay
    /\ ~resp.SuccessWithoutPrePay
    /\ balances[call.from] = 3
    /\ Len(resp.AssetChanges) = 1

\* A transfer the sender could afford has been recorded without a credit.
C30_WitnessAfforded ==
    /\ call.fn = "SimulateNativeAsset" /\ call.value = 1
    /\ call.balancesBefore[call.from] = 2
    /\ resp.SuccessWithoutPrePay /\ balances[call.from] = 2
    /\ Len(resp.AssetChanges) = 1

=============================================================================
